---- MODULE Spec2Model ----
(***************************************************************************)
(* A model of gologs/log: the functional-option algebra of package config  *)
(* (Config, Option, With, WithContext) and the per-level Logger pipeline   *)
(* that Config.With builds (threshold filter, caller tracking, lock guard, *)
(* exit/panic wrappers, level injection, Logger or Stream sink).           *)
(***************************************************************************)
EXTENDS Integers, Sequences, FiniteSets, TLC

(***************************************************************************)
(* Bounds of the model.                                                    *)
(***************************************************************************)
\* option applications in one behaviour of the option algebra
MaxOps == 2
\* goroutines that log concurrently
NumG == 2
\* log calls made in one behaviour of the pipeline
MaxCalls == 2

(***************************************************************************)
(* levels: bit flags, one bit per level.                                   *)
(***************************************************************************)
Debug == 1
Info == 2
Warn == 4
Error == 8
Fatal == 16
Panic == 32

allLevels == <<Debug, Info, Warn, Error, Fatal, Panic>>

Levels == {allLevels[i] : i \in 1..Len(allLevels)}

DefaultCallerDepth == 5

(***************************************************************************)
(* Messages.  A template is a sequence of tokens, "%d" being a verb; the   *)
(* empty template is the formatless variant (Debug, Info, ...).  Sprintf   *)
(* fills the verbs from the arguments, left to right.                      *)
(***************************************************************************)
RECURSIVE Sprintf(_, _)
Sprintf(m, a) ==
  IF m = <<>> THEN (IF a = <<>> THEN <<>> ELSE <<"%!(EXTRA)">>)
  ELSE IF Head(m) = "%d"
       THEN IF a = <<>> THEN <<"%!d(MISSING)">> \o Sprintf(Tail(m), a)
            ELSE <<Head(a)>> \o Sprintf(Tail(m), Tail(a))
       ELSE <<Head(m)>> \o Sprintf(Tail(m), a)

\* fmt.Sprint of the arguments: the operands one after the other
Sprint(a) == a

\* the text a sink renders for (m, a): Fprintf for a template, Fprint without
Render(m, a) == IF m # <<>> THEN Sprintf(m, a) ELSE Sprint(a)

(***************************************************************************)
(* context.Getter: a base getter and the decorators NewGetter has stacked  *)
(* on it.  The nil getter is base "nil" with no decorators; a getter with  *)
(* base "nil" and decorators is a non-nil closure over a nil func.         *)
(***************************************************************************)
NilGetter == [base |-> "nil", decs |-> <<>>]

\* a getter the client supplies
G1 == [base |-> "g1", decs |-> <<>>]

TODO == [base |-> "TODO", decs |-> <<>>]

NewGetter(ctxf, d) ==
  IF Len(d) > 0 THEN [base |-> ctxf.base, decs |-> ctxf.decs \o d] ELSE ctxf

safeContext(f) == IF f = NilGetter THEN TODO ELSE f

(***************************************************************************)
(* Config and its functional options.                                      *)
(***************************************************************************)
NilSink ==
  [Stream |-> "nil", Logger |-> "nil", Decorators |-> <<>>,
   Marshaler |-> "nil", Errors |-> "nil", Builder |-> "nil"]

Porcelain ==
  [Context |-> NilGetter,
   Level |-> Info,
   Sink |-> NilSink,
   CallTracking |-> [Enabled |-> TRUE, Depth |-> DefaultCallerDepth],
   ExitCode |-> 1,
   Exit |-> "nil",
   Panic |-> "nil",
   TransformOps |-> <<>>]

DefaultConfig == Porcelain

\* Decorators.Copy and TransformOps.Copy: a fresh slice with the same elements
DecoratorsCopy(dd) == [i \in 1..Len(dd) |-> dd[i]]

TransformOpsCopy(ops) == [i \in 1..Len(ops) |-> ops[i]]

\* Config.Copy: a clone whose Sink.Decorators is copied
Copy(cfg) == [cfg EXCEPT !.Sink.Decorators = DecoratorsCopy(cfg.Sink.Decorators)]

\* An Option value: the constructor called (or the undo closure returned)
\* and what it captured.
Opt(kind, arg) == [kind |-> kind, arg |-> arg]

NilOption == Opt("nil", <<>>)

\* The result of calling an option on a Config: the Config as it leaves
\* the call and the Option returned.
Res(cfg, undo) == [cfg |-> cfg, undo |-> undo]

NoOption(c) == Res(c, Opt("NoOption", <<>>))

Set(cfg, c) == Res(Copy(cfg), Opt("Set", Copy(c)))

Context(f, c) == Res([c EXCEPT !.Context = f], Opt("Context", c.Context))

Level(level, c) == Res([c EXCEPT !.Level = level], Opt("Level", c.Level))

Sink(x, c) == Res([c EXCEPT !.Sink = x], Opt("Sink", c.Sink))

\* a Stream option that replaces the whole Sink
StreamAsSink(stream, c) ==
  Res([c EXCEPT !.Sink = [NilSink EXCEPT !.Stream = stream]],
      Opt("Stream", c.Sink.Stream))

Stream(stream, c) ==
  Res([c EXCEPT !.Sink.Stream = stream], Opt("Stream", c.Sink.Stream))

Logger(logs, c) ==
  Res([c EXCEPT !.Sink.Logger = logs], Opt("Logger", c.Sink.Logger))

OnExit(f, c) == Res([c EXCEPT !.Exit = f], Opt("OnExit", c.Exit))

ExitCode(code, c) == Res([c EXCEPT !.ExitCode = code], Opt("ExitCode", c.ExitCode))

OnPanic(f, c) == Res([c EXCEPT !.Panic = f], Opt("OnPanic", c.Panic))

Marshaler(m, c) ==
  Res([c EXCEPT !.Sink.Marshaler = m], Opt("Marshaler", c.Sink.Marshaler))

\* Encoding appends; the closure it returns puts the old slice back and
\* returns Encoding(d...) again.
Encoding(d, c) ==
  LET old == DecoratorsCopy(c.Sink.Decorators)
  IN Res([c EXCEPT !.Sink.Decorators = c.Sink.Decorators \o d],
         Opt("EncodingUndo", [old |-> old, d |-> d]))

EncodingUndo(u, c) ==
  Res([c EXCEPT !.Sink.Decorators = u.old], Opt("Encoding", u.d))

CallTracking(t, c) ==
  Res([c EXCEPT !.CallTracking = t], Opt("CallTracking", c.CallTracking))

Errors(es, c) == Res([c EXCEPT !.Sink.Errors = es], Opt("Errors", c.Sink.Errors))

Builder(b, c) == Res([c EXCEPT !.Sink.Builder = b], Opt("Builder", c.Sink.Builder))

TransformOps(ops, c) ==
  LET old == TransformOpsCopy(c.TransformOps)
  IN Res([c EXCEPT !.TransformOps = c.TransformOps \o ops],
         Opt("TransformOpsUndo", [old |-> old, ops |-> ops]))

TransformOpsUndo(u, c) ==
  Res([c EXCEPT !.TransformOps = u.old], Opt("TransformOps", u.ops))

AddContext(d, c) ==
  Res([c EXCEPT !.Context = NewGetter(c.Context, d)], Opt("Context", c.Context))

\* o(&c): the call of an Option value on a Config
ApplyOption(o, c) ==
  CASE o.kind = "NoOption" -> NoOption(c)
    [] o.kind = "Set" -> Set(o.arg, c)
    [] o.kind = "Context" -> Context(o.arg, c)
    [] o.kind = "Level" -> Level(o.arg, c)
    [] o.kind = "Sink" -> Sink(o.arg, c)
    [] o.kind = "Stream" -> Stream(o.arg, c)
    [] o.kind = "Logger" -> Logger(o.arg, c)
    [] o.kind = "OnExit" -> OnExit(o.arg, c)
    [] o.kind = "ExitCode" -> ExitCode(o.arg, c)
    [] o.kind = "OnPanic" -> OnPanic(o.arg, c)
    [] o.kind = "Marshaler" -> Marshaler(o.arg, c)
    [] o.kind = "Encoding" -> Encoding(o.arg, c)
    [] o.kind = "EncodingUndo" -> EncodingUndo(o.arg, c)
    [] o.kind = "CallTracking" -> CallTracking(o.arg, c)
    [] o.kind = "Errors" -> Errors(o.arg, c)
    [] o.kind = "Builder" -> Builder(o.arg, c)
    [] o.kind = "TransformOps" -> TransformOps(o.arg, c)
    [] o.kind = "TransformOpsUndo" -> TransformOpsUndo(o.arg, c)
    [] o.kind = "AddContext" -> AddContext(o.arg, c)

\* the loop of With and WithContext over opt, nil entries skipped: the
\* Config after the options and the Option the last call returned
RECURSIVE ApplyAll(_, _, _)
ApplyAll(opt, c, lastOpt) ==
  IF opt = <<>> THEN Res(c, lastOpt)
  ELSE IF Head(opt).kind = "nil" THEN ApplyAll(Tail(opt), c, lastOpt)
       ELSE LET r == ApplyOption(Head(opt), c)
            IN ApplyAll(Tail(opt), r.cfg, r.undo)

(***************************************************************************)
(* Loggers.  A Logger is the sequence of its layers, innermost first: the  *)
(* sink, then every wrapper put around it.  A layer is [k, n, s]: its      *)
(* kind, a number (level, exit code, call depth) and a name (sink, hook).  *)
(***************************************************************************)
Layer(k, n, s) == [k |-> k, n |-> n, s |-> s]

\* logger.Null(): discards every event
Null == <<Layer("null", 0, "")>>

\* logger.SystemLogger(): the standard library's log package
SystemLogger == <<Layer("logger", 0, "system")>>

\* a level decorator that stamps Info whatever the method
DecorateInfo(level, logs) == Append(logs, Layer("levelctx", Info, ""))

\* logger.WithContext(levels.DecorateContext(level), logs)
DecorateContext(level, logs) == Append(logs, Layer("levelctx", level, ""))

\* an exitLogger that forgets the Config's exit code
exitLoggerNoCode(logs, fexit, code) == Append(logs, Layer("exit", 0, fexit))

\* exitLogger: defers the exit func with the exit code, then calls logs
exitLogger(logs, fexit, code) == Append(logs, Layer("exit", code, fexit))

\* panicLogger: defers the panic func, then calls logs
panicLogger(logs, fpanic) == Append(logs, Layer("panic", 0, fpanic))

\* a filter that also rejects the threshold level itself
MatchAbove(lvl, x) == x > lvl

\* levels.MatchAtOrAbove(lvl): at or above lvl in severity order
MatchAtOrAbove(lvl, x) == x >= lvl

\* a filter whose verdict is not acted on
AcceptAll(accepted, ll) == ll

\* levels.Accept(filter): the Logger itself, or Null when the filter rejects
Accept(accepted, ll) == IF accepted THEN ll ELSE Null

MinTransform(min, x, ll) == Accept(MatchAtOrAbove(min, x), ll)

\* a guard that does not lock
NoGuardApply(x, logs) == logs

\* lockGuard.Apply: Lock, defer Unlock, delegate
lockGuardApply(x, logs) == Append(logs, Layer("guard", 0, ""))

\* (&levels.Transform{Fatal: exitLogger, Panic: panicLogger}).Apply
TransformApply(t, x, logs) ==
  IF x = Fatal THEN exitLogger(logs, t.exit, t.code)
  ELSE IF x = Panic THEN panicLogger(logs, t.panic)
  ELSE logs

\* A TransformOp of the chain is [k, t]: "user" (an op of Config.TransformOps,
\* modelled as returning its Logger unchanged), "transform", "guard",
\* "caller" or "min"; t carries what the op captured.
Top(k, t) == [k |-> k, t |-> t]

NoT == [exit |-> "", code |-> 0, panic |-> "", min |-> 0, depth |-> 0]

TransformOp(op, x, logs) ==
  CASE op.k = "user" -> logs
    [] op.k = "transform" -> TransformApply(op.t, x, logs)
    [] op.k = "guard" -> lockGuardApply(x, logs)
    [] op.k = "caller" -> Append(logs, Layer("caller", op.t.depth, ""))
    [] op.k = "min" -> MinTransform(op.t.min, x, logs)

\* TransformOps.Apply: every op against the input, first to last
RECURSIVE TransformOpsApply(_, _, _)
TransformOpsApply(ops, x, logs) ==
  IF ops = <<>> THEN logs
  ELSE TransformOpsApply(Tail(ops), x, TransformOp(Head(ops), x, logs))

\* levels.NewIndexer(logAt, nil, chain...): one Logger for every level
NewIndexer(logs, chain) ==
  [x \in Levels |-> TransformOpsApply(chain, x, DecorateContext(x, logs))]

\* leveledLogger: the chain is t, the guard, caller tracking (if enabled)
\* and the threshold, in that order; the getter also stamps the time.
leveledLogger(ctx, min, logs, t, callTracking) ==
  LET chain ==
        t \o <<Top("guard", NoT)>>
          \o (IF callTracking.Enabled
              THEN <<Top("caller", [NoT EXCEPT !.depth = callTracking.Depth])>>
              ELSE <<>>)
          \o <<Top("min", [NoT EXCEPT !.min = min])>>
  IN [ctxf |-> NewGetter(ctx, <<"timestamp">>),
      loggers |-> NewIndexer(logs, chain)]

\* safeBuilder(builder)(s, marshaler, errorSink): the Logger over the Stream
safeBuilder(s) ==
  <<Layer("stream", 0, IF s = "nil" THEN "stdlog" ELSE s)>>

LeveledStreamer(ctx, min, s, t, callTracking) ==
  leveledLogger(safeContext(ctx), min, safeBuilder(s), t, callTracking)

LeveledLogger(ctx, min, logs, t, callTracking) ==
  leveledLogger(safeContext(ctx), min,
                IF logs = "nil" THEN SystemLogger ELSE <<Layer("logger", 0, logs)>>,
                t, callTracking)

\* a With that prefers the Logger when both are set
UseStreamUnlessLogger(cfg) == cfg.Sink.Stream # "nil" /\ cfg.Sink.Logger = "nil"

\* the destination Config.With picks: the Stream when one is set
UseStream(cfg) == cfg.Sink.Stream # "nil"

\* Config.With: the rollback is taken before the options are applied, the
\* exit and panic wrappers go after the user's ops.  The result is the
\* Interface (with the marshaling settings its Stream Logger captured) and
\* the rollback Option.
\* a rollback taken after the options have been applied
WithRollbackAfter(cfg, opt) == Opt("Set", ApplyAll(opt, cfg, NilOption).cfg)

\* rollback := Set(cfg), taken before any option is applied
WithRollback(cfg, opt) == Opt("Set", cfg)

With(cfg0, opt) ==
  LET rollback == WithRollback(cfg0, opt)
      cfg == ApplyAll(opt, cfg0, NilOption).cfg
      t == [i \in 1..Len(cfg.TransformOps) |-> Top("user", NoT)]
             \o <<Top("transform",
                      [NoT EXCEPT !.exit = cfg.Exit, !.code = cfg.ExitCode,
                                  !.panic = cfg.Panic])>>
      built ==
        IF UseStream(cfg)
        THEN LeveledStreamer(cfg.Context, cfg.Level, cfg.Sink.Stream, t,
                             cfg.CallTracking)
        ELSE LeveledLogger(cfg.Context, cfg.Level, cfg.Sink.Logger, t,
                           cfg.CallTracking)
  IN [iface |-> [ctxf |-> built.ctxf,
                 loggers |-> built.loggers,
                 decorators |-> cfg.Sink.Decorators,
                 marshaler |-> cfg.Sink.Marshaler,
                 errors |-> cfg.Sink.Errors,
                 cfg |-> cfg],
      rollback |-> rollback]

\* Config.WithContext of the earlier config package: the Option returned
\* is the one the last non-nil option returned.
WithContext(cfg, opt) == ApplyAll(opt, cfg, Opt("NoOption", <<>>))

(***************************************************************************)
(* State.                                                                  *)
(***************************************************************************)
VARIABLES
  cur,      \* the Config options are applied to
  last,     \* the last option call on cur: the Config before, the Option
            \* called and the Option it returned
  rb,       \* the rollback Option Config.With returned, and what became of it
  wc,       \* the Option Config.WithContext returned, and what became of it
  nops,     \* option calls so far
  ifaces,   \* the Interfaces Config.With has built
  mutex,    \* per Interface, the goroutine holding its lockGuard (0: free)
  gs,       \* per goroutine, where it is in its log call
  bufs,     \* per BufferedStream, the chunks written since the last EOM
  captures, \* the EOMFunc calls, in order
  sinkLog,  \* the events the Logger sinks received, in order
  trace,    \* sink deliveries, sink returns and hook calls, in order
  calls,    \* the log calls made, by call id
  returned, \* the ids of the log calls that have returned (or panicked out)
  halted,   \* the process has exited or crashed
  stream,   \* the Stream a marshaler is called on directly, and its marshaler
  sbuf,     \* that Stream's buffer
  since,    \* what has been written to that Stream since its last EOM
  dlg,      \* the bytes the delegate of a RecordIO stream has accepted
  mar,      \* the marshaler call in progress on that Stream
  eoms,     \* the EOM calls on that Stream, in order
  rets,     \* the marshaler calls that have returned, in order
  room,     \* how many values the error channel can accept now: its free
            \* capacity plus the receivers waiting on it
  listening,\* somebody receives from the error channel now and then
  cancelled,\* the client has cancelled the Context its getter returns
  sends,    \* the errors sent on the error channel, in order
  results,  \* the errors the marshalers of the Stream sinks returned
  heap,     \* the Contexts WithValue has made, by address
  snap,     \* the WithValue calls made, with what Value of the Context
            \* given returned for each key before the call
  inp,      \* the arguments of a library call made directly
  outp      \* what that call did

\* the Stream used directly: neither the option algebra nor the Interfaces
\* touch it
ioVars == <<stream, sbuf, since, dlg, mar, eoms, rets>>

\* the error channel of the Stream sink and the client's Context
errVars == <<room, listening, cancelled, sends, results>>

\* Contexts, loggers and marshalers used directly
libVars == <<heap, snap, inp, outp>>

\* the option algebra's own variables, and the Interfaces' own
cfgVars == <<cur, last, rb, wc, nops>>

pipeVars == <<ifaces, mutex, gs, bufs, captures, sinkLog, trace, calls, returned,
              halted, errVars, libVars>>

\* what a step of a log call leaves alone
optVars == <<cfgVars, ioVars, errVars, libVars>>

logVars == <<pipeVars, ioVars>>

vars == <<cur, last, rb, wc, nops, ifaces, mutex, gs, bufs, captures, sinkLog,
          trace, calls, returned, halted, stream, sbuf, since, dlg, mar, eoms, rets,
          room, listening, cancelled, sends, results, heap, snap, inp, outp>>

StreamIds == {"s1", "stdlog"}

G == 1..NumG

Idle ==
  [pc |-> "idle", id |-> 0, todo |-> <<>>, defers |-> <<>>, ctx |-> <<>>,
   ops |-> <<>>, stream |-> "", panicking |-> FALSE, err |-> "nil"]

NoLast ==
  [op |-> "none", before |-> DefaultConfig, mid |-> DefaultConfig,
   opt |-> NilOption, ret |-> NilOption]

NoToken ==
  [state |-> "none", fresh |-> FALSE, n |-> 0, c |-> DefaultConfig,
   built |-> DefaultConfig, x |-> DefaultConfig, tok |-> NilOption]

\* a Config a client has filled in by hand
CustomConfig ==
  [Context |-> G1,
   Level |-> Warn,
   Sink |-> [NilSink EXCEPT !.Stream = "s1", !.Logger = "l1",
                            !.Decorators = <<"LevelPrefix">>],
   CallTracking |-> [Enabled |-> FALSE, Depth |-> 0],
   ExitCode |-> 3,
   Exit |-> "NoExit",
   Panic |-> "NoPanic",
   TransformOps |-> <<"op1">>]

LogInit ==
  /\ ifaces = <<>>
  /\ mutex = <<>>
  /\ gs = [g \in G |-> Idle]
  /\ bufs = [s \in StreamIds |-> <<>>]
  /\ captures = <<>>
  /\ sinkLog = <<>>
  /\ trace = <<>>
  /\ calls = <<>>
  /\ returned = {}
  /\ halted = FALSE

\* an error channel nobody receives from, a Context nobody has cancelled
ErrInit ==
  /\ room = 0
  /\ listening = FALSE
  /\ cancelled = FALSE
  /\ sends = <<>>
  /\ results = <<>>

\* no library call made
NoInput == [kind |-> "none"]

\* no Context made, no library call made
LibInit ==
  /\ heap = <<>>
  /\ snap = <<>>
  /\ inp = NoInput
  /\ outp = NoInput

\* no marshaler call in progress
NoCall == [pc |-> "idle", ev |-> 0, n |-> 0, todo |-> <<>>, err |-> "nil"]

\* a BufferedStream without EOMFunc, its marshaler a plain Format()
PlainStream == [kind |-> "buffered", eomf |-> "nil", delegate |-> "", dd |-> <<>>]

IOInit(st) ==
  /\ stream = st
  /\ sbuf = <<>>
  /\ since = <<>>
  /\ dlg = <<>>
  /\ mar = NoCall
  /\ eoms = <<>>
  /\ rets = <<>>

\* the option algebra starts from the default Config or a hand-made one
InitOpt ==
  /\ cur \in {DefaultConfig, CustomConfig}
  /\ last = NoLast
  /\ rb = NoToken
  /\ wc = NoToken
  /\ nops = 0
  /\ LogInit
  /\ IOInit(PlainStream)
  /\ ErrInit
  /\ LibInit

Init ==
  /\ cur = DefaultConfig
  /\ last = NoLast
  /\ rb = NoToken
  /\ wc = NoToken
  /\ nops = 0
  /\ LogInit
  /\ IOInit(PlainStream)
  /\ ErrInit
  /\ LibInit

(***************************************************************************)
(* The options a client calls, by constructor.                             *)
(***************************************************************************)
Options ==
  << Opt("NoOption", <<>>),
     Opt("Context", G1),
     Opt("Level", Debug), Opt("Level", Panic),
     Opt("Sink", [NilSink EXCEPT !.Logger = "l1", !.Errors = "e1"]),
     Opt("Stream", "nil"), Opt("Stream", "s1"),
     Opt("Logger", "l1"),
     Opt("OnExit", "NoExit"),
     Opt("ExitCode", 2),
     Opt("OnPanic", "NoPanic"),
     Opt("Marshaler", "m1"),
     Opt("Encoding", <<>>), Opt("Encoding", <<"LevelPrefix">>),
     Opt("Encoding", <<"d1", "d2">>),
     Opt("CallTracking", [Enabled |-> FALSE, Depth |-> 0]),
     Opt("Errors", "e1"),
     Opt("Builder", "b1"),
     Opt("TransformOps", <<"op1">>),
     Opt("AddContext", <<"d1">>) >>

\* the options handed to With and WithContext in one call: up to two
ListOptions ==
  << NilOption, Opt("Level", Debug), Opt("ExitCode", 2),
     Opt("OnExit", "NoExit") >>

OptList(i, j) ==
  (IF i = 0 THEN <<>> ELSE <<ListOptions[i]>>)
    \o (IF j = 0 THEN <<>> ELSE <<ListOptions[j]>>)

\* a token goes stale once cur is changed by something else
Stale(t) == [t EXCEPT !.fresh = FALSE]

(***************************************************************************)
(* The option algebra: a client calls options on cur and the Options they  *)
(* return, and calls With and WithContext on cur.                          *)
(***************************************************************************)
\* o(&cur) for a constructor's Option o
ApplyOpt(o) ==
  /\ nops < MaxOps
  /\ LET r == ApplyOption(o, cur)
     IN /\ cur' = r.cfg
        /\ last' = [op |-> "apply", before |-> cur, mid |-> cur, opt |-> o,
                    ret |-> r.undo]
  /\ nops' = nops + 1
  /\ rb' = Stale(rb)
  /\ wc' = Stale(wc)
  /\ UNCHANGED logVars

\* the Option the last call returned, called on cur right away
UndoOpt ==
  /\ last.op = "apply"
  /\ LET r == ApplyOption(last.ret, cur)
     IN /\ cur' = r.cfg
        /\ last' = [op |-> "undo", before |-> last.before, mid |-> cur,
                    opt |-> last.opt, ret |-> r.undo]
  /\ rb' = Stale(rb)
  /\ wc' = Stale(wc)
  /\ UNCHANGED <<nops, logVars>>

\* _, rollback := cur.With(opt...): cur is the receiver, passed by value
DoWith(opt) ==
  /\ nops < MaxOps
  /\ rb.state = "none"
  /\ rb' = [state |-> "held", fresh |-> FALSE, n |-> Len(opt), c |-> cur,
            built |-> With(cur, opt).iface.cfg, x |-> cur,
            tok |-> With(cur, opt).rollback]
  /\ nops' = nops + 1
  /\ last' = NoLast
  /\ UNCHANGED <<cur, wc, logVars>>

\* rollback(&cur), whatever cur has become since
Rollback ==
  /\ rb.state = "held"
  /\ LET r == ApplyOption(rb.tok, cur)
     IN /\ cur' = r.cfg
        /\ rb' = [rb EXCEPT !.state = "applied", !.fresh = TRUE, !.x = cur,
                           !.tok = r.undo]
  /\ last' = NoLast
  /\ wc' = Stale(wc)
  /\ UNCHANGED <<nops, logVars>>

\* the Option that the rollback returned, called on cur
RollbackUndo ==
  /\ rb.state = "applied"
  /\ LET r == ApplyOption(rb.tok, cur)
     IN /\ cur' = r.cfg
        /\ rb' = [rb EXCEPT !.state = "reverted", !.fresh = TRUE, !.tok = r.undo]
  /\ last' = NoLast
  /\ wc' = Stale(wc)
  /\ UNCHANGED <<nops, logVars>>

\* _, undo := cur.WithContext(ctx, opt...), the client keeping the Config
\* with the options applied as its current one
DoWithContext(opt) ==
  /\ nops < MaxOps
  /\ wc.state = "none"
  /\ LET r == WithContext(cur, opt)
     IN /\ cur' = r.cfg
        /\ wc' = [state |-> "held", fresh |-> TRUE, n |-> Len(opt), c |-> cur,
                  built |-> r.cfg, x |-> r.cfg, tok |-> r.undo]
  /\ nops' = nops + 1
  /\ last' = NoLast
  /\ rb' = Stale(rb)
  /\ UNCHANGED logVars

\* undo(&cur), right after WithContext
UndoWithContext ==
  /\ wc.state = "held"
  /\ wc.fresh
  /\ LET r == ApplyOption(wc.tok, cur)
     IN /\ cur' = r.cfg
        /\ wc' = [wc EXCEPT !.state = "applied", !.tok = r.undo]
  /\ last' = NoLast
  /\ rb' = Stale(rb)
  /\ UNCHANGED <<nops, logVars>>

NextOpt ==
  \/ \E i \in 1..Len(Options) : ApplyOpt(Options[i])
  \/ UndoOpt
  \/ \E i, j \in 0..Len(ListOptions) : DoWith(OptList(i, j))
  \/ Rollback
  \/ RollbackUndo
  \/ \E i, j \in 0..Len(ListOptions) : DoWithContext(OptList(i, j))
  \/ UndoWithContext

SpecOpt == InitOpt /\ [][NextOpt]_vars

(***************************************************************************)
(* Contexts: the chain of key/value pairs WithValue has built; the value   *)
(* of a key is the one set last.                                           *)
(***************************************************************************)
WithValue(c, key, value) == Append(c, [key |-> key, val |-> value])

HasValue(c, key) == \E i \in 1..Len(c) : c[i].key = key

Value(c, key) ==
  LET I == {i \in 1..Len(c) : c[i].key = key}
  IN c[CHOOSE i \in I : \A j \in I : j <= i].val

\* context.Decorators(d).Decorate(ctx): first to last
RECURSIVE Decorate(_, _)
Decorate(d, ctx) ==
  IF d = <<>> THEN ctx
  ELSE Decorate(Tail(d), WithValue(ctx, Head(d), IF Head(d) = "timestamp" THEN 0 ELSE 1))

\* the Context a Getter produces: TODO and Background are empty
GetContext(ctxf) ==
  Decorate(ctxf.decs,
           IF ctxf.base = "g1" THEN WithValue(<<>>, "g1", 1) ELSE <<>>)

\* levels.FromContext
FromContext(c) == IF HasValue(c, "level") THEN Value(c, "level") ELSE 0

(***************************************************************************)
(* Marshaling: the Writes and the EOM of one event, in the order the       *)
(* decorated marshaler performs them.                                      *)
(***************************************************************************)
levelCodes ==
  [x \in Levels |->
     CASE x = Debug -> "D" [] x = Info -> "I" [] x = Warn -> "W"
       [] x = Error -> "E" [] x = Fatal -> "F" [] x = Panic -> "P"]

unknownLevel == "?"

\* ioutil.level
level(c) ==
  IF FromContext(c) \in DOMAIN levelCodes THEN levelCodes[FromContext(c)]
  ELSE unknownLevel

\* the chunk a Prefix decorator writes: the level code for ioutil.Level(),
\* its own label for a client's decorator
PrefixChunk(d, c) == IF d = "LevelPrefix" THEN <<level(c)>> ELSE <<d>>

\* Decorators.Decorate(Format()): the last decorator is outermost and
\* writes first; Format writes the rendered text and calls EOM
RECURSIVE MarshalOps(_, _, _, _)
MarshalOps(dd, c, m, a) ==
  IF dd = <<>>
  THEN <<[op |-> "W", data |-> Render(m, a)], [op |-> "EOM", data |-> <<>>]>>
  ELSE <<[op |-> "W", data |-> PrefixChunk(dd[Len(dd)], c)]>>
         \o MarshalOps(SubSeq(dd, 1, Len(dd) - 1), c, m, a)

(***************************************************************************)
(* Logging.  A call enters the layers of its level's Logger from the       *)
(* outermost in; deferred calls run, last in first out, on the way back.   *)
(***************************************************************************)
Ev(ev, id, n, text, h) == [ev |-> ev, id |-> id, n |-> n, text |-> text, h |-> h]

TopLayer(g) == gs[g].todo[Len(gs[g].todo)]

Front(q) == SubSeq(q, 1, Len(q) - 1)

IfaceOf(g) == calls[gs[g].id].iface

Entering(g, k) ==
  /\ ~halted
  /\ gs[g].pc = "enter"
  /\ TopLayer(g).k = k

\* setup: iface, _ := DefaultConfig.With(opt...)
Build(opt, maxI) ==
  /\ ~halted
  /\ Len(ifaces) < maxI
  /\ calls = <<>>
  /\ ifaces' = Append(ifaces, With(DefaultConfig, opt).iface)
  /\ mutex' = Append(mutex, 0)
  /\ UNCHANGED <<optVars, gs, bufs, captures, sinkLog, trace, calls, returned, halted>>

\* the getter cannot be called: NewGetter has wrapped a nil func, and
\* calling it panics
NilFunc(ctxf) == ctxf.base = "nil"

\* goroutine g calls the method of level lvl on Interface i: the Context
\* comes from the getter, f.ic(), the Logger is the one built for lvl; a
\* getter over a nil func panics before any Logger is entered
Call(g, i, lvl, m, a) ==
  /\ ~halted
  /\ gs[g].pc = "idle"
  /\ Len(calls) < MaxCalls
  /\ i \in 1..Len(ifaces)
  /\ calls' = Append(calls, [g |-> g, iface |-> i, lvl |-> lvl, m |-> m, a |-> a])
  /\ IF NilFunc(ifaces[i].ctxf)
     THEN /\ gs' = [gs EXCEPT ![g] = [Idle EXCEPT !.pc = "panicked"]]
          /\ returned' = returned \cup {Len(calls) + 1}
     ELSE /\ gs' = [gs EXCEPT ![g] =
                     [Idle EXCEPT !.pc = "enter", !.id = Len(calls) + 1,
                                  !.todo = ifaces[i].loggers[lvl],
                                  !.ctx = GetContext(ifaces[i].ctxf)]]
          /\ UNCHANGED returned
  /\ UNCHANGED <<optVars, ifaces, mutex, bufs, captures, sinkLog, trace, halted>>

\* logger.Null()
EnterNull(g) ==
  /\ Entering(g, "null")
  /\ gs' = [gs EXCEPT ![g].todo = <<>>, ![g].pc = "unwind"]
  /\ UNCHANGED <<optVars, ifaces, mutex, bufs, captures, sinkLog, trace, calls, returned, halted>>

\* caller tracking: the Caller goes into the Context
EnterCaller(g) ==
  /\ Entering(g, "caller")
  /\ gs' = [gs EXCEPT ![g].todo = Front(@),
                      ![g].ctx = WithValue(@, "caller", TopLayer(g).n)]
  /\ UNCHANGED <<optVars, ifaces, mutex, bufs, captures, sinkLog, trace, calls, returned, halted>>

\* lockGuard: g.Lock(); defer g.Unlock()
Lock(g) ==
  /\ Entering(g, "guard")
  /\ mutex[IfaceOf(g)] = 0
  /\ mutex' = [mutex EXCEPT ![IfaceOf(g)] = g]
  /\ gs' = [gs EXCEPT ![g].todo = Front(@), ![g].defers = Append(@, TopLayer(g))]
  /\ UNCHANGED <<optVars, ifaces, bufs, captures, sinkLog, trace, calls, returned, halted>>

\* exitLogger and panicLogger: defer the hook, then delegate
EnterHook(g) ==
  /\ ~halted
  /\ gs[g].pc = "enter"
  /\ TopLayer(g).k \in {"exit", "panic"}
  /\ gs' = [gs EXCEPT ![g].todo = Front(@), ![g].defers = Append(@, TopLayer(g))]
  /\ UNCHANGED <<optVars, ifaces, mutex, bufs, captures, sinkLog, trace, calls, returned, halted>>

\* the level goes into the Context
EnterLevel(g) ==
  /\ Entering(g, "levelctx")
  /\ gs' = [gs EXCEPT ![g].todo = Front(@),
                      ![g].ctx = WithValue(@, "level", TopLayer(g).n)]
  /\ UNCHANGED <<optVars, ifaces, mutex, bufs, captures, sinkLog, trace, calls, returned, halted>>

\* the Logger sink's Logf runs and returns
SinkLogger(g) ==
  /\ Entering(g, "logger")
  /\ LET c == calls[gs[g].id]
     IN /\ sinkLog' = Append(sinkLog,
                        [logger |-> TopLayer(g).s, id |-> gs[g].id,
                         lvl |-> FromContext(gs[g].ctx), m |-> c.m, a |-> c.a,
                         c |-> gs[g].ctx])
        /\ trace' = trace \o <<Ev("deliver", gs[g].id, FromContext(gs[g].ctx),
                                  Render(c.m, c.a), TopLayer(g).s),
                               Ev("sinkret", gs[g].id, 0, <<>>, "")>>
  /\ gs' = [gs EXCEPT ![g].todo = <<>>, ![g].pc = "unwind"]
  /\ UNCHANGED <<optVars, ifaces, mutex, bufs, captures, calls, returned, halted>>

\* the Logger sink's Logf panics
SinkPanics(g) ==
  /\ Entering(g, "logger")
  /\ trace' = Append(trace, Ev("sinkpanic", gs[g].id, 0, <<>>, TopLayer(g).s))
  /\ gs' = [gs EXCEPT ![g].todo = <<>>, ![g].pc = "unwind", ![g].panicking = TRUE]
  /\ UNCHANGED <<optVars, ifaces, mutex, bufs, captures, sinkLog, calls, returned, halted>>

\* the Stream sink's Logf starts: the decorated marshaler is called
SinkStream(g) ==
  /\ Entering(g, "stream")
  /\ LET c == calls[gs[g].id]
     IN gs' = [gs EXCEPT ![g].todo = <<>>, ![g].pc = "marshal",
                         ![g].stream = TopLayer(g).s,
                         ![g].ops = MarshalOps(ifaces[c.iface].decorators,
                                               gs[g].ctx, c.m, c.a)]
  /\ UNCHANGED <<optVars, ifaces, mutex, bufs, captures, sinkLog, trace, calls, returned, halted>>

\* one Write of the marshaler into the BufferedStream
Write(g) ==
  /\ ~halted
  /\ gs[g].pc = "marshal"
  /\ Head(gs[g].ops).op = "W"
  /\ bufs' = [bufs EXCEPT ![gs[g].stream] =
                Append(@, [id |-> gs[g].id, data |-> Head(gs[g].ops).data])]
  /\ gs' = [gs EXCEPT ![g].ops = Tail(@)]
  /\ UNCHANGED <<optVars, ifaces, mutex, captures, sinkLog, trace, calls, returned, halted>>

\* BufferedStream.EOM: EOMFunc gets the buffer, the buffer is reset, and
\* the Stream sink's Logf returns
EOM(g) ==
  /\ ~halted
  /\ gs[g].pc = "marshal"
  /\ Head(gs[g].ops).op = "EOM"
  /\ captures' = Append(captures,
                   [stream |-> gs[g].stream, id |-> gs[g].id,
                    chunks |-> bufs[gs[g].stream]])
  /\ bufs' = [bufs EXCEPT ![gs[g].stream] = <<>>]
  /\ trace' = trace \o <<Ev("deliver", gs[g].id, FromContext(gs[g].ctx), <<>>,
                            gs[g].stream),
                         Ev("sinkret", gs[g].id, 0, <<>>, "")>>
  /\ gs' = [gs EXCEPT ![g].ops = <<>>, ![g].pc = "unwind"]
  /\ UNCHANGED <<optVars, ifaces, mutex, sinkLog, calls, returned, halted>>

Unwinding(g, k) ==
  /\ ~halted
  /\ gs[g].pc = "unwind"
  /\ gs[g].defers # <<>>
  /\ gs[g].defers[Len(gs[g].defers)].k = k

\* an Unlock written after the delegate's Logf instead of deferred: a panic
\* passes it by
UnlockAtReturn(panicking) == ~panicking

\* defer g.Unlock(): runs when Apply's Logger returns and when it panics
DeferredUnlock(panicking) == TRUE

\* the deferred g.Unlock()
Unlock(g) ==
  /\ Unwinding(g, "guard")
  /\ mutex' = IF DeferredUnlock(gs[g].panicking)
               THEN [mutex EXCEPT ![IfaceOf(g)] = 0] ELSE mutex
  /\ gs' = [gs EXCEPT ![g].defers = Front(@)]
  /\ UNCHANGED <<optVars, ifaces, bufs, captures, sinkLog, trace, calls, returned, halted>>

\* the deferred safeExit(fexit)(code): os.Exit when no func is set
ExitHook(g) ==
  /\ Unwinding(g, "exit")
  /\ LET d == gs[g].defers[Len(gs[g].defers)]
     IN /\ trace' = Append(trace, Ev("exit", gs[g].id, d.n, <<>>, d.s))
        /\ halted' = (d.s = "nil")
  /\ gs' = [gs EXCEPT ![g].defers = Front(@)]
  /\ UNCHANGED <<optVars, ifaces, mutex, bufs, captures, sinkLog, calls, returned>>

\* what the deferred panic func is called with: the m of the call
PanicArg(m, a) == m

\* the deferred safePanic(fpanic)(m): panic(m) when no func is set
PanicHook(g) ==
  /\ Unwinding(g, "panic")
  /\ LET d == gs[g].defers[Len(gs[g].defers)]
         c == calls[gs[g].id]
     IN /\ trace' = Append(trace, Ev("panic", gs[g].id, 0, PanicArg(c.m, c.a), d.s))
        /\ gs' = [gs EXCEPT ![g].defers = Front(@),
                            ![g].panicking = (@ \/ d.s = "nil")]
  /\ UNCHANGED <<optVars, ifaces, mutex, bufs, captures, sinkLog, calls, returned, halted>>

\* the method returns to its caller, or the panic reaches it
Return(g) ==
  /\ ~halted
  /\ gs[g].pc = "unwind"
  /\ gs[g].defers = <<>>
  /\ returned' = returned \cup {gs[g].id}
  /\ gs' = [gs EXCEPT ![g] = IF gs[g].panicking
                             THEN [Idle EXCEPT !.pc = "panicked"] ELSE Idle]
  /\ UNCHANGED <<optVars, ifaces, mutex, bufs, captures, sinkLog, trace, calls, halted>>

\* the caller recovers from the panic
Recover(g) ==
  /\ ~halted
  /\ gs[g].pc = "panicked"
  /\ gs' = [gs EXCEPT ![g] = Idle]
  /\ UNCHANGED <<optVars, ifaces, mutex, bufs, captures, sinkLog, trace, calls, returned, halted>>

\* nobody recovers: the process dies
Crash(g) ==
  /\ ~halted
  /\ gs[g].pc = "panicked"
  /\ halted' = TRUE
  /\ UNCHANGED <<optVars, ifaces, mutex, gs, bufs, captures, sinkLog, trace, calls, returned>>

Step(g) ==
  \/ EnterNull(g)
  \/ EnterCaller(g)
  \/ Lock(g)
  \/ EnterHook(g)
  \/ EnterLevel(g)
  \/ SinkLogger(g)
  \/ SinkStream(g)
  \/ Write(g)
  \/ EOM(g)
  \/ Unlock(g)
  \/ ExitHook(g)
  \/ PanicHook(g)
  \/ Return(g)
  \/ Recover(g)
  \/ Crash(g)

(***************************************************************************)
(* What the clients of the model do.                                       *)
(***************************************************************************)
\* the messages logged: a template with a verb and its argument, and the
\* formatless variant
Msgs ==
  { [m |-> <<"x=", "%d">>, a |-> <<"7">>],
    [m |-> <<>>, a |-> <<"w/o", "format">>] }

SinkOpts ==
  << <<Opt("Logger", "l1")>>,
     <<Opt("Stream", "s1"), Opt("Encoding", <<"LevelPrefix">>)>>,
     <<Opt("Stream", "s1"), Opt("Logger", "l1")>>,
     <<Opt("Logger", "l1"), Opt("Stream", "s1")>> >>

HookOpts ==
  << <<Opt("OnExit", "NoExit"), Opt("OnPanic", "NoPanic")>>,
     <<Opt("ExitCode", 2), Opt("OnExit", "NoExit"), Opt("OnPanic", "NoPanic"),
       Opt("CallTracking", [Enabled |-> FALSE, Depth |-> 0])>>,
     <<>> >>

\* one client: an Interface with any threshold, sink and hooks, one
\* goroutine logging through it
Next ==
  \/ \E min \in Levels, i \in 1..Len(SinkOpts), j \in 1..Len(HookOpts) :
       Build(<<Opt("Level", min)>> \o SinkOpts[i] \o HookOpts[j], 1)
  \/ \E lvl \in Levels, msg \in Msgs : Call(1, 1, lvl, msg.m, msg.a)
  \/ Step(1)

Spec == Init /\ [][Next]_vars

\* several clients: each builds its Interface over one of the streams, then
\* the goroutines log through the Interfaces concurrently.  There are as
\* many Interfaces as streams, so that two of them share a stream or each
\* has its own; the streams being alike, the first Interface is over "s1".
MaxIfaces == Cardinality(StreamIds)

\* the level method a goroutine calls: not the same for all
LevelOf(g) == IF g = 1 THEN Info ELSE Warn

ConcOpts(sid) ==
  <<Opt("Stream", sid), Opt("Encoding", <<"LevelPrefix">>),
    Opt("CallTracking", [Enabled |-> FALSE, Depth |-> 0])>>

StepConc(g) ==
  \/ Lock(g)
  \/ EnterLevel(g)
  \/ SinkStream(g)
  \/ Write(g)
  \/ EOM(g)
  \/ Unlock(g)
  \/ Return(g)

NextConc ==
  \/ \E sid \in StreamIds :
       /\ ifaces = <<>> => sid = "s1"
       /\ Build(ConcOpts(sid), MaxIfaces)
  \/ \E g \in G, i \in 1..MaxIfaces :
       Call(g, i, LevelOf(g), <<"x=", "%d">>, <<"7">>)
  \/ \E g \in G : StepConc(g)

SpecConc == Init /\ [][NextConc]_vars

\* goroutines sharing one Interface that has a threshold, caller tracking
\* and a Logger sink that may panic; no panic hook is set, so that Panicf
\* panics, and every caller recovers.  At some point the client applies
\* Level(Debug) to the Config it built the Interface from.
\* The calls are Warnf, which the threshold Error discards, and Panicf.
GuardLevels == {Warn, Panic}

GuardOpts(min) == <<Opt("Level", min), Opt("Logger", "l1")>>

\* setup: iface, _ := cur.With(opt...); With has a value receiver, the
\* client's Config stays as it is
BuildCur(opt) ==
  /\ ifaces = <<>>
  /\ ifaces' = Append(ifaces, With(cur, opt).iface)
  /\ mutex' = Append(mutex, 0)
  /\ UNCHANGED <<optVars, gs, bufs, captures, sinkLog, trace, calls, returned, halted>>

StepGuard(g) ==
  \/ EnterNull(g)
  \/ EnterCaller(g)
  \/ Lock(g)
  \/ EnterHook(g)
  \/ EnterLevel(g)
  \/ SinkLogger(g)
  \/ SinkPanics(g)
  \/ Unlock(g)
  \/ PanicHook(g)
  \/ Return(g)
  \/ Recover(g)

NextGuard ==
  \/ \E min \in {Info, Error} : BuildCur(GuardOpts(min))
  \/ nops = 0 /\ ApplyOpt(Opt("Level", Debug))
  \/ \E g \in G, lvl \in GuardLevels : Call(g, 1, lvl, <<"x=", "%d">>, <<"7">>)
  \/ \E g \in G : StepGuard(g)

SpecGuard == Init /\ [][NextGuard]_vars

\* a client who adds Context decorators: the Config has a getter of the
\* client's or none, and the Interface is built with AddContext(d...)
AddOpts(ctxopt, d) ==
  <<Opt("Logger", "l1")>> \o ctxopt \o <<Opt("AddContext", d)>>

StepAdd(g) ==
  \/ EnterNull(g)
  \/ EnterCaller(g)
  \/ Lock(g)
  \/ EnterLevel(g)
  \/ SinkLogger(g)
  \/ Unlock(g)
  \/ Return(g)
  \/ Recover(g)
  \/ Crash(g)

NextAdd ==
  \/ \E ctxopt \in {<<>>, <<Opt("Context", G1)>>},
         d \in {<<>>, <<"d1">>, <<"d2", "d1">>} :
       Build(AddOpts(ctxopt, d), 1)
  \/ \E lvl \in {Debug, Info, Error}, msg \in Msgs : Call(1, 1, lvl, msg.m, msg.a)
  \/ StepAdd(1)

SpecAdd == Init /\ [][NextAdd]_vars

(***************************************************************************)
(* Errors of the Stream sink.  logger.WithStream calls the marshaler and,  *)
(* when it returns an error and there is an error channel, waits in a      *)
(* select for the send of the error or for the Done channel of the event's *)
(* Context, whichever is ready; with both ready the select takes either.   *)
(***************************************************************************)
\* the error the EOMFunc returns when it fails on event id: not the same
\* for all events
EOMError(id) == IF id % 2 = 1 THEN "e1" ELSE "e2"

SelectsAnyChan(err, errCh) == err # "nil"

\* if err := op(...); err != nil && errCh != nil
Selects(err, errCh) == err # "nil" /\ errCh # "nil"

\* ctx.Done() is closed.  Done() of a decorated Context is that of the
\* Context the getter returned: nil for TODO and Background, the client's
\* own channel for the client's Context
Done(c) == HasValue(c, "g1") /\ cancelled

\* a send on errCh can proceed: never on a nil channel
CanAccept(errCh) == errCh # "nil" /\ room > 0

Selecting(g) ==
  /\ ~halted
  /\ gs[g].pc = "select"

\* BufferedStream.EOM whose EOMFunc returns error e: the marshaler returns
\* e to WithStream
EOMErr(g, e) ==
  /\ ~halted
  /\ gs[g].pc = "marshal"
  /\ Head(gs[g].ops).op = "EOM"
  /\ captures' = Append(captures,
                   [stream |-> gs[g].stream, id |-> gs[g].id,
                    chunks |-> bufs[gs[g].stream]])
  /\ bufs' = [bufs EXCEPT ![gs[g].stream] = <<>>]
  /\ results' = Append(results, [id |-> gs[g].id, err |-> e,
                                 done |-> Done(gs[g].ctx)])
  /\ LET deliver == Ev("deliver", gs[g].id, FromContext(gs[g].ctx), <<>>,
                       gs[g].stream)
     IN IF Selects(e, ifaces[IfaceOf(g)].errors)
        THEN /\ gs' = [gs EXCEPT ![g].ops = <<>>, ![g].pc = "select", ![g].err = e]
             /\ trace' = Append(trace, deliver)
        ELSE /\ gs' = [gs EXCEPT ![g].ops = <<>>, ![g].pc = "unwind"]
             /\ trace' = trace \o <<deliver, Ev("sinkret", gs[g].id, 0, <<>>, "")>>
  /\ UNCHANGED <<cfgVars, ioVars, libVars, ifaces, mutex, sinkLog, calls, returned, halted,
                 room, listening, cancelled, sends>>

\* case errCh <- err
SendErr(g) ==
  /\ Selecting(g)
  /\ CanAccept(ifaces[IfaceOf(g)].errors)
  /\ sends' = Append(sends, [id |-> gs[g].id, err |-> gs[g].err])
  /\ room' = room - 1
  /\ trace' = Append(trace, Ev("sinkret", gs[g].id, 0, <<>>, ""))
  /\ gs' = [gs EXCEPT ![g].pc = "unwind", ![g].err = "nil"]
  /\ UNCHANGED <<cfgVars, ioVars, libVars, ifaces, mutex, bufs, captures, sinkLog, calls,
                 returned, halted, listening, cancelled, results>>

\* case <-ctx.Done()
DropErr(g) ==
  /\ Selecting(g)
  /\ Done(gs[g].ctx)
  /\ trace' = Append(trace, Ev("sinkret", gs[g].id, 0, <<>>, ""))
  /\ gs' = [gs EXCEPT ![g].pc = "unwind", ![g].err = "nil"]
  /\ UNCHANGED <<cfgVars, ioVars, libVars, ifaces, mutex, bufs, captures, sinkLog, calls,
                 returned, halted, errVars>>

\* a receiver comes to the error channel
Listen ==
  /\ ~halted
  /\ listening
  /\ room = 0
  /\ room' = 1
  /\ UNCHANGED <<cfgVars, ioVars, libVars, ifaces, mutex, gs, bufs, captures, sinkLog, trace,
                 calls, returned, halted, listening, cancelled, sends, results>>

\* the client cancels its Context: the Done channel is closed
Cancel ==
  /\ ~halted
  /\ ~cancelled
  /\ cancelled' = TRUE
  /\ UNCHANGED <<cfgVars, ioVars, libVars, ifaces, mutex, gs, bufs, captures, sinkLog, trace,
                 calls, returned, halted, room, listening, sends, results>>

\* the error channel is there or not, the Context is the client's or TODO
ErrOpts(es, ctxf) ==
  <<Opt("Stream", "s1"), Opt("Errors", es), Opt("Context", ctxf),
    Opt("CallTracking", [Enabled |-> FALSE, Depth |-> 0])>>

StepErr(g) ==
  \/ Lock(g)
  \/ EnterLevel(g)
  \/ SinkStream(g)
  \/ Write(g)
  \/ EOM(g)
  \/ EOMErr(g, EOMError(gs[g].id))
  \/ SendErr(g)
  \/ DropErr(g)
  \/ Unlock(g)
  \/ Return(g)

\* the error channel has no free slot, and a receiver or none
InitErr ==
  /\ cur = DefaultConfig
  /\ last = NoLast
  /\ rb = NoToken
  /\ wc = NoToken
  /\ nops = 0
  /\ LogInit
  /\ IOInit(PlainStream)
  /\ room = 0
  /\ listening \in BOOLEAN
  /\ cancelled = FALSE
  /\ sends = <<>>
  /\ results = <<>>
  /\ LibInit

\* one Interface over a Stream whose EOMFunc may fail, the goroutines
\* logging through it, a client that may cancel and a receiver that may come
NextErr ==
  \/ \E es \in {"nil", "e1"}, ctxf \in {NilGetter, G1} : Build(ErrOpts(es, ctxf), 1)
  \/ \E g \in G : Call(g, 1, LevelOf(g), <<"x=", "%d">>, <<"7">>)
  \/ \E g \in G : StepErr(g)
  \/ Listen
  \/ Cancel

SpecErr == InitErr /\ [][NextErr]_vars

(***************************************************************************)
(* Contexts used directly (package context).  A Context is an address: 0   *)
(* is the nullContext of Background and TODO, n > 0 the stateful struct    *)
(* heap[n] a WithValue call has allocated.                                 *)
(***************************************************************************)
\* nullContext.Value: the nil interface
NilValue == "nil"

CtxKeys == {"k1", "k2", "k3"}

CtxVals == {"v1", "v2"}

\* &stateful{c, key, value}
stateful(c, key, value) == [Context |-> c, key |-> key, value |-> value]

\* a WithValue that sets the pair in the stateful Context it is given
WithValueInPlace(h, c, key, value) ==
  IF c = 0
  THEN [heap |-> Append(h, stateful(c, key, value)), ctx |-> Len(h) + 1]
  ELSE [heap |-> [h EXCEPT ![c].key = key, ![c].value = value], ctx |-> c]

\* context.WithValue(c, key, value): a new stateful over c
ContextWithValue(h, c, key, value) ==
  [heap |-> Append(h, stateful(c, key, value)), ctx |-> Len(h) + 1]

\* c.Value(key): stateful.Value answers for its own key and asks the
\* Context it embeds for any other; nullContext.Value returns nil
RECURSIVE ContextValue(_, _, _)
ContextValue(h, c, key) ==
  IF c = 0 THEN NilValue
  ELSE IF key = h[c].key THEN h[c].value
  ELSE ContextValue(h, h[c].Context, key)

\* a client calls WithValue on Background or on a Context made before
DoWithValue(c, key, value) ==
  /\ Len(snap) <= MaxOps
  /\ c \in 0..Len(heap)
  /\ LET r == ContextWithValue(heap, c, key, value)
     IN /\ heap' = r.heap
        /\ snap' = Append(snap,
                     [c |-> c, key |-> key, value |-> value, ctx |-> r.ctx,
                      before |-> [k \in CtxKeys |-> ContextValue(heap, c, k)]])
  /\ UNCHANGED <<cfgVars, ioVars, errVars, inp, outp>>
  /\ UNCHANGED <<ifaces, mutex, gs, bufs, captures, sinkLog, trace, calls, returned,
                 halted>>

NextCtx ==
  \E c \in 0..MaxOps, key \in CtxKeys, value \in CtxVals : DoWithValue(c, key, value)

SpecCtx == Init /\ [][NextCtx]_vars

(***************************************************************************)
(* Loggers and marshalers called directly, one call at a time: the call    *)
(* and what it did are kept in inp and outp.                               *)
(***************************************************************************)
\* all the sequences over S of length n or less
RECURSIVE SeqsUpTo(_, _)
SeqsUpTo(S, n) ==
  IF n = 0 THEN {<<>>}
  ELSE SeqsUpTo(S, n - 1)
         \cup {Append(q, x) : q \in {p \in SeqsUpTo(S, n - 1) : Len(p) = n - 1}, x \in S}

\* a library call is made once
Fresh == inp = NoInput

\* the Contexts handed to the calls: Background, and the client's own
LibContexts == {<<>>, WithValue(<<>>, "g1", 1)}

\* logger.Multi(loggers...).Logf(c, m, a...) from member i on: the members'
\* Logf are called one after the other; a member that panics ends the loop
\* and the panic leaves Multi's Logf
RECURSIVE MultiLogf(_, _, _, _, _)
MultiLogf(loggers, i, c, m, a) ==
  IF i > Len(loggers) THEN [log |-> <<>>, panicked |-> FALSE]
  ELSE LET d == [logger |-> i, c |-> c, m |-> m, a |-> a]
       IN IF loggers[i] = "panics"
          THEN [log |-> <<d>>, panicked |-> TRUE]
          ELSE [log |-> <<d>> \o MultiLogf(loggers, i + 1, c, m, a).log,
                panicked |-> MultiLogf(loggers, i + 1, c, m, a).panicked]

\* a client calls Logf of a Multi over loggers that return or panic
CallMulti(loggers, c, msg) ==
  /\ Fresh
  /\ inp' = [kind |-> "multi", loggers |-> loggers, c |-> c, m |-> msg.m, a |-> msg.a]
  /\ outp' = MultiLogf(loggers, 1, c, msg.m, msg.a)
  /\ UNCHANGED <<cfgVars, ioVars, errVars, heap, snap>>
  /\ UNCHANGED <<ifaces, mutex, gs, bufs, captures, sinkLog, trace, calls, returned,
                 halted>>

\* a marshaler Decorator: a nil entry of the list, Prefix(f) with the
\* chunks the Iterable of f yields (io.Prefix: one chunk, or the error of f),
\* ioutil.Level(), the earlier Annotator(), or WithContext(f) with the pair f adds; f = "nil" is
\* Prefix(nil) and WithContext(nil)
Dec(kind, f, chunks, ferr, key, val) ==
  [kind |-> kind, f |-> f, chunks |-> chunks, ferr |-> ferr, key |-> key, val |-> val]

LibDecorators ==
  { Dec("nil", "nil", <<>>, "nil", "", 0),
    Dec("Prefix", "nil", <<>>, "nil", "", 0),
    Dec("Prefix", "f", <<>>, "nil", "", 0),
    Dec("Prefix", "f", <<"">>, "nil", "", 0),
    Dec("Prefix", "f", <<"a">>, "nil", "", 0),
    Dec("Prefix", "f", <<"a", "", "b">>, "nil", "", 0),
    Dec("Prefix", "f", <<"a">>, "ep", "", 0),
    Dec("Level", "f", <<>>, "nil", "", 0),
    Dec("Annotator", "f", <<>>, "nil", "", 0),
    Dec("WithContext", "nil", <<>>, "nil", "", 0),
    Dec("WithContext", "f", <<>>, "nil", "level", Warn),
    Dec("WithContext", "f", <<>>, "nil", "k1", 1) }

\* the decorator entered k-th of n, were the first of the list outermost
EntryFirst(n, k) == k

\* Decorators.Decorate: op = d(op) for each d in order, so the last of the
\* list is outermost: the decorator entered k-th of n is the k-th from the end
Entry(n, k) == n - k + 1

\* Decorate skips a nil Decorator; Prefix(nil) and WithContext(nil) are
\* NoDecorator()
Skipped(d) == d.kind = "nil" \/ d.f = "nil"

\* a Prefix that goes on after an error
NeverShortCircuits(err) == FALSE

\* Prefix: for it != nil && err == nil, and if err == nil { err = op(...) }
ShortCircuits(err) == err # "nil"

\* encoding.Singular(b): no Iterable for an empty b
Singular(b) == IF b = "" THEN <<>> ELSE <<b>>

\* the bytes of the func of Annotator(): the code of the level of c, or
\* none when the level has no code
Annotation(c) ==
  IF FromContext(c) \in DOMAIN levelCodes THEN levelCodes[FromContext(c)] ELSE ""

\* the chunks the Iterable of prefixf(c) yields
PrefixChunks(d, c) ==
  IF d.kind = "Level" THEN Singular(level(c))
  ELSE IF d.kind = "Annotator" THEN Singular(Annotation(c))
  ELSE d.chunks

\* a run of a marshaler on a Stream: the chunks written, by whom, the Write
\* calls made, the Write call that fails (0: none), who was entered with
\* which Context, the EOM calls and the error so far
NewRun(failAt) ==
  [bytes |-> <<>>, writes |-> 0, failAt |-> failAt, seen |-> <<>>, eoms |-> 0,
   err |-> "nil"]

\* s.Write(data) by decorator by (0: the marshaler decorated)
SWrite(st, by, data) ==
  IF st.writes + 1 = st.failAt
  THEN [st EXCEPT !.writes = @ + 1, !.err = "ew"]
  ELSE [st EXCEPT !.writes = @ + 1, !.bytes = Append(@, [by |-> by, data |-> data])]

Enter(st, by, c) == [st EXCEPT !.seen = Append(@, [by |-> by, c |-> c])]

\* the loop of encoding.Prefix over the Iterable: empty chunks are not
\* written, and the first error ends it
RECURSIVE WritePrefix(_, _, _)
WritePrefix(chunks, by, st) ==
  IF chunks = <<>> \/ ShortCircuits(st.err) THEN st
  ELSE WritePrefix(Tail(chunks), by,
                   IF Head(chunks) # "" THEN SWrite(st, by, Head(chunks)) ELSE st)

\* the op of Format: Fprintf or Fprint, then err = w.EOM(err); the Stream
\* is a BufferedStream whose EOMFunc returns the error it is given
FormatOp(c, m, a, st) ==
  [SWrite(Enter(st, 0, c), 0, Render(m, a)) EXCEPT !.eoms = @ + 1]

\* Decorators(dd).Decorate(Format()) called with c, k of the decorators
\* entered already
RECURSIVE RunOp(_, _, _, _, _, _)
RunOp(dd, k, c, m, a, st) ==
  IF k = Len(dd) THEN FormatOp(c, m, a, st)
  ELSE LET i == Entry(Len(dd), k + 1)
           d == dd[i]
       IN IF Skipped(d) THEN RunOp(dd, k + 1, c, m, a, st)
          ELSE IF d.kind = "WithContext"
          THEN RunOp(dd, k + 1, WithValue(c, d.key, d.val), m, a, Enter(st, i, c))
          ELSE LET st2 == IF d.ferr # "nil"
                          THEN [Enter(st, i, c) EXCEPT !.err = d.ferr]
                          ELSE WritePrefix(PrefixChunks(d, c), i, Enter(st, i, c))
               IN IF ShortCircuits(st2.err) THEN st2
                  ELSE RunOp(dd, k + 1, c, m, a, st2)

\* the Contexts an event comes with: Background, one with a level, one
\* with a level that has no code
EventContexts == {<<>>, WithValue(<<>>, "level", Info), WithValue(<<>>, "level", 3)}

\* a client calls a decorated marshaler on a Stream whose failAt-th Write
\* fails
CallMarshaler(dd, c, msg, failAt) ==
  /\ Fresh
  /\ inp' = [kind |-> "marshal", dd |-> dd, c |-> c, m |-> msg.m, a |-> msg.a,
             failAt |-> failAt]
  /\ outp' = RunOp(dd, 0, c, msg.m, msg.a, NewRun(failAt))
  /\ UNCHANGED <<cfgVars, ioVars, errVars, heap, snap>>
  /\ UNCHANGED <<ifaces, mutex, gs, bufs, captures, sinkLog, trace, calls, returned,
                 halted>>

NextLib ==
  \/ /\ Fresh
     /\ \E dd \in SeqsUpTo(LibDecorators, MaxOps), c \in EventContexts, msg \in Msgs,
            failAt \in 0..MaxOps :
          CallMarshaler(dd, c, msg, failAt)
  \/ /\ Fresh
     /\ \E loggers \in SeqsUpTo({"ok", "panics"}, MaxCalls + 1), c \in LibContexts,
            msg \in Msgs :
          CallMulti(loggers, c, msg)

SpecLib == Init /\ [][NextLib]_vars

(***************************************************************************)
(* Streams and marshalers used directly (package io): a marshaler built by *)
(* Format(decorators...) is called on a BufferedStream or a RecordIO       *)
(* stream, event after event.  Bytes are kept as segments: n bytes of part *)
(* "prefix" or "body" of event ev, or one length byte of value v.          *)
(***************************************************************************)
Seg(ev, part, n, v) == [ev |-> ev, part |-> part, n |-> n, v |-> v]

\* the number of bytes in a sequence of segments
RECURSIVE Bytes(_)
Bytes(q) == IF q = <<>> THEN 0 ELSE Head(q).n + Bytes(Tail(q))

\* the first k bytes of q
RECURSIVE TakeBytes(_, _)
TakeBytes(q, k) ==
  IF k = 0 \/ q = <<>> THEN <<>>
  ELSE IF Head(q).n <= k
       THEN <<Head(q)>> \o TakeBytes(Tail(q), k - Head(q).n)
       ELSE <<[Head(q) EXCEPT !.n = k]>>

\* a length written as one byte
PutByte(x) == <<x % 256>>

\* binary.PutUvarint: seven bits to a byte, low bits first, the top bit set
\* on every byte but the last
RECURSIVE PutUvarint(_)
PutUvarint(x) ==
  IF x < 128 THEN <<x>> ELSE <<(x % 128) + 128>> \o PutUvarint(x \div 128)

\* rs.sz[:n] for event ev: the length bytes as segments
LenBytes(ev, x) ==
  [i \in 1..Len(PutUvarint(x)) |-> Seg(ev, "len", 1, PutUvarint(x)[i])]

\* an EOM that keeps the buffer when it was given an error
BufferedEOMKeep(buf, eomf, err, out) ==
  [called |-> eomf # "nil",
   given |-> IF eomf # "nil" THEN buf ELSE <<>>,
   passed |-> IF eomf # "nil" THEN err ELSE "nil",
   out |-> IF eomf # "nil" THEN out ELSE "nil",
   left |-> IF err = "nil" THEN <<>> ELSE buf,
   wrote |-> <<>>]

\* BufferedStream.EOM(err) on buffer buf: EOMFunc, when set, is given the
\* buffer and err and its result (out) is returned; without EOMFunc the
\* result is nil; the deferred Reset empties the buffer
BufferedEOM(buf, eomf, err, out) ==
  [called |-> eomf # "nil",
   given |-> IF eomf # "nil" THEN buf ELSE <<>>,
   passed |-> IF eomf # "nil" THEN err ELSE "nil",
   out |-> IF eomf # "nil" THEN out ELSE "nil",
   left |-> <<>>,
   wrote |-> <<>>]

\* what a delegate.Write of q accepts: all of it, or one byte less without
\* or with an error
Accepted(q, w) == IF w = "full" THEN q ELSE TakeBytes(q, Bytes(q) - 1)

\* a record EOM that does not compare what was written with what was asked
RecordEOMSilent(ev, buf, err, w1, w2) ==
  LET sz == LenBytes(ev, Bytes(buf))
      none == [called |-> FALSE, given |-> <<>>, passed |-> "nil", out |-> err,
               left |-> <<>>, wrote |-> <<>>]
  IN IF err # "nil" THEN none
     ELSE IF w1 = "err"
       THEN [none EXCEPT !.out = "ed", !.wrote = Accepted(sz, w1)]
     ELSE IF Bytes(buf) = 0
       THEN [none EXCEPT !.out = "nil", !.wrote = Accepted(sz, w1)]
     ELSE IF w2 = "err"
       THEN [none EXCEPT !.out = "ed", !.wrote = Accepted(sz, w1) \o Accepted(buf, w2)]
     ELSE [none EXCEPT !.out = "nil", !.wrote = Accepted(sz, w1) \o Accepted(buf, w2)]

\* recordStream.EOM(err) for event ev on buffer buf, the delegate behaving as
\* w1 for the length write and as w2 for the data write
RecordEOM(ev, buf, err, w1, w2) ==
  LET sz == LenBytes(ev, Bytes(buf))
      none == [called |-> FALSE, given |-> <<>>, passed |-> "nil", out |-> err,
               left |-> <<>>, wrote |-> <<>>]
  IN IF err # "nil" THEN none
     ELSE IF w1 = "err"
       THEN [none EXCEPT !.out = "ed", !.wrote = Accepted(sz, w1)]
     ELSE IF w1 = "short"
       THEN [none EXCEPT !.out = "ErrShortWrite", !.wrote = Accepted(sz, w1)]
     ELSE IF Bytes(buf) = 0
       THEN [none EXCEPT !.out = "nil", !.wrote = sz]
     ELSE IF w2 = "err"
       THEN [none EXCEPT !.out = "ed", !.wrote = sz \o Accepted(buf, w2)]
     ELSE IF w2 = "short"
       THEN [none EXCEPT !.out = "ErrShortWrite", !.wrote = sz \o Accepted(buf, w2)]
     ELSE [none EXCEPT !.out = "nil", !.wrote = sz \o buf]

\* what EOMFunc may return, and how the delegate may take the two writes
Picks(err) ==
  IF stream.kind = "buffered"
  THEN [out : (IF stream.eomf = "nil" THEN {"nil"} ELSE {"nil", "ef", err}),
        w1 : {"full"}, w2 : {"full"}]
  ELSE [out : {"nil"},
        w1 : (IF stream.delegate = "full" THEN {"full"} ELSE {"full", "short", "err"}),
        w2 : (IF stream.delegate = "full" THEN {"full"} ELSE {"full", "short", "err"})]

EOMResult(ev, err, pick) ==
  IF stream.kind = "buffered"
  THEN BufferedEOM(sbuf, stream.eomf, err, pick.out)
  ELSE RecordEOM(ev, sbuf, err, pick.w1, pick.w2)

\* s.EOM(err): the call is recorded with what had been written since the
\* last one
EOMCall(ev, err, pick, r) ==
  /\ eoms' = Append(eoms, [ev |-> ev, in |-> err, since |-> since,
                           w1 |-> pick.w1, w2 |-> pick.w2,
                           called |-> r.called, given |-> r.given,
                           passed |-> r.passed, out |-> r.out, left |-> r.left])
  /\ sbuf' = r.left
  /\ since' = <<>>
  /\ dlg' = dlg \o r.wrote

\* s.Write(q): neither stream's Write fails
StreamWrite(q) ==
  /\ sbuf' = sbuf \o q
  /\ since' = since \o q

\* marshaler calls and direct EOM calls so far
IOEvents ==
  Len(rets) + Cardinality({k \in 1..Len(eoms) : eoms[k].ev = 0})
    + (IF mar.pc = "idle" THEN 0 ELSE 1)


\* the sizes of the formatted messages: nothing, a few bytes, and more than
\* a one-byte length can say
BodySizes == {0, 3, 200}

PrefixSize == 1

\* Decorators.Decorate: nil decorators are skipped, and the last decorator
\* is the first to run
RECURSIVE DecorateOps(_)
DecorateOps(dd) ==
  IF dd = <<>> THEN <<>>
  ELSE (IF dd[Len(dd)] = "nil" THEN <<>> ELSE <<dd[Len(dd)]>>)
         \o DecorateOps(SubSeq(dd, 1, Len(dd) - 1))

\* marshaler(ctx, stream, m, a...) is called for a message that formats to
\* n bytes
Begin(n) ==
  /\ mar.pc = "idle"
  /\ IOEvents < MaxCalls
  /\ mar' = [pc |-> "run", ev |-> IOEvents + 1, n |-> n,
             todo |-> DecorateOps(stream.dd), err |-> "nil"]
  /\ UNCHANGED <<cfgVars, pipeVars>>
  /\ UNCHANGED <<stream, sbuf, since, dlg, eoms, rets>>

\* the outcomes of a prefix func: its bytes, or an error
PrefixOutcomes(d) == IF d = "flaky" THEN {"nil", "ep"} ELSE {"nil"}

\* a Prefix decorator: f(c) is called; its bytes are written and the wrapped
\* op is run, unless there was an error, which is returned at once
PrefixStep ==
  /\ mar.pc = "run"
  /\ mar.todo # <<>>
  /\ \E err \in PrefixOutcomes(Head(mar.todo)) :
       IF err = "nil"
       THEN /\ StreamWrite(<<Seg(mar.ev, "prefix", PrefixSize, 0)>>)
            /\ mar' = [mar EXCEPT !.todo = Tail(@)]
       ELSE /\ mar' = [mar EXCEPT !.todo = <<>>, !.err = err, !.pc = "ret"]
            /\ UNCHANGED <<sbuf, since>>
  /\ UNCHANGED <<cfgVars, pipeVars>>
  /\ UNCHANGED <<stream, dlg, eoms, rets>>

\* the op of Format: Fprintf or Fprint into the stream
FormatWrite ==
  /\ mar.pc = "run"
  /\ mar.todo = <<>>
  /\ StreamWrite(IF mar.n = 0 THEN <<>> ELSE <<Seg(mar.ev, "body", mar.n, 0)>>)
  /\ mar' = [mar EXCEPT !.pc = "eom"]
  /\ UNCHANGED <<cfgVars, pipeVars>>
  /\ UNCHANGED <<stream, dlg, eoms, rets>>

\* the op of Format: err = w.EOM(err)
MarshalEOM ==
  /\ mar.pc = "eom"
  /\ \E pick \in Picks(mar.err) :
       LET r == EOMResult(mar.ev, mar.err, pick)
       IN /\ EOMCall(mar.ev, mar.err, pick, r)
          /\ mar' = [mar EXCEPT !.pc = "ret", !.err = r.out]
  /\ UNCHANGED <<cfgVars, pipeVars>>
  /\ UNCHANGED <<stream, rets>>

\* the marshaler returns its error
MarshalReturn ==
  /\ mar.pc = "ret"
  /\ rets' = Append(rets, [ev |-> mar.ev, err |-> mar.err])
  /\ mar' = NoCall
  /\ UNCHANGED <<cfgVars, pipeVars>>
  /\ UNCHANGED <<stream, sbuf, since, dlg, eoms>>

\* a client calls s.EOM(err) itself
DirectEOM(err) ==
  /\ mar.pc = "idle"
  /\ IOEvents < MaxCalls
  /\ \E pick \in Picks(err) : EOMCall(0, err, pick, EOMResult(0, err, pick))
  /\ UNCHANGED <<cfgVars, pipeVars>>
  /\ UNCHANGED <<stream, mar, rets>>

\* the streams and marshalers tried
IOStreams ==
  { [kind |-> k[1], eomf |-> k[2], delegate |-> k[3], dd |-> dd] :
      k \in { <<"buffered", "nil", "">>, <<"buffered", "func", "">>,
              <<"record", "nil", "full">>, <<"record", "nil", "flaky">> },
      dd \in { <<>>, <<"ok">>, <<"flaky">>, <<"flaky", "ok">>, <<"nil", "ok">> } }

InitIO ==
  /\ cur = DefaultConfig
  /\ last = NoLast
  /\ rb = NoToken
  /\ wc = NoToken
  /\ nops = 0
  /\ LogInit
  /\ \E st \in IOStreams : IOInit(st)
  /\ ErrInit
  /\ LibInit

NextIO ==
  \/ \E n \in BodySizes : Begin(n)
  \/ PrefixStep
  \/ FormatWrite
  \/ MarshalEOM
  \/ MarshalReturn
  \/ \E err \in {"nil", "e1"} : DirectEOM(err)

SpecIO == InitIO /\ [][NextIO]_vars

(***************************************************************************)
(* Properties of the option algebra.                                       *)
(***************************************************************************)
\* the Config fields an Option constructor names
Named(kind) ==
  CASE kind \in {"Context", "AddContext"} -> <<"Context">>
    [] kind = "Level" -> <<"Level">>
    [] kind = "Sink" -> <<"Sink">>
    [] kind = "Stream" -> <<"Sink", "Stream">>
    [] kind = "Logger" -> <<"Sink", "Logger">>
    [] kind = "OnExit" -> <<"Exit">>
    [] kind = "ExitCode" -> <<"ExitCode">>
    [] kind = "OnPanic" -> <<"Panic">>
    [] kind = "Marshaler" -> <<"Sink", "Marshaler">>
    [] kind = "Encoding" -> <<"Sink", "Decorators">>
    [] kind = "CallTracking" -> <<"CallTracking">>
    [] kind = "Errors" -> <<"Sink", "Errors">>
    [] kind = "Builder" -> <<"Sink", "Builder">>
    [] kind = "TransformOps" -> <<"TransformOps">>
    [] OTHER -> <<>>

\* c with the field at path p blanked
Erase(c, p) ==
  CASE Len(p) = 0 -> c
    [] Len(p) = 1 -> [c EXCEPT ![p[1]] = "-"]
    [] Len(p) = 2 -> [c EXCEPT ![p[1]] = [c[p[1]] EXCEPT ![p[2]] = "-"]]

SameButNamed(kind, c, d) == Erase(c, Named(kind)) = Erase(d, Named(kind))

\* C5: the Option returned by c.With(o1..on), applied to any Config x,
\* leaves x equal to c as it was before the options, and the Option that
\* call returns puts x back to the value it had.
C5_RollbackRestores ==
  /\ (rb.state = "applied" /\ rb.fresh) => cur = rb.c
  /\ (rb.state = "reverted" /\ rb.fresh) => cur = rb.x

\* With was given two options that change c, the rollback was applied to
\* a Config different from c, and the Option it returned was applied too
C5_Witness ==
  /\ rb.state = "reverted"
  /\ rb.fresh
  /\ rb.n = 2
  /\ rb.built # rb.c
  /\ rb.x # rb.c
  /\ cur = rb.x

\* C6: the Option returned by c.WithContext(ctx, o1..on), applied to c with
\* o1..on applied, yields a Config equal to c.
C6_UndoRestoresAll == wc.state = "applied" => cur = wc.c

\* C7: applying a constructor's Option to c and then the Option it
\* returned restores c; neither step changes a field the constructor does
\* not name; NoOption changes nothing and returns itself.
C7_OptionInverse ==
  /\ last.op = "apply" => SameButNamed(last.opt.kind, last.before, cur)
  /\ last.op = "undo" =>
       /\ cur = last.before
       /\ SameButNamed(last.opt.kind, last.mid, cur)
  /\ (last.op = "apply" /\ last.opt.kind = "NoOption") =>
       /\ cur = last.before
       /\ last.ret = last.opt

\* a Stream option changed a Config whose Sink has a Logger, and the Option
\* it returned was applied
C7_Witness ==
  /\ last.op = "undo"
  /\ last.opt.kind = "Stream"
  /\ last.mid # last.before
  /\ last.before.Sink.Logger # "nil"
  /\ cur = last.before

(***************************************************************************)
(* Properties of logging.                                                  *)
(***************************************************************************)
Ids == 1..Len(calls)

Count(ev, id) ==
  Cardinality({k \in 1..Len(trace) : trace[k].ev = ev /\ trace[k].id = id})

\* the Config the Interface of call id was built from
CfgOf(id) == ifaces[calls[id].iface].cfg

\* call id has come back from its sink (or from the filter that dropped it)
PastSink(id) == \A g \in G : gs[g].id = id => gs[g].pc = "unwind"

\* C1: with threshold min, a call to the method of level L reaches the sink
\* exactly once if L is at or above min and never if L is below min; the
\* default threshold is Info.
C1_Threshold ==
  /\ DefaultConfig.Level = Info
  /\ Levels = {1, 2, 4, 8, 16, 32}
  /\ \A id \in Ids :
       /\ calls[id].lvl < CfgOf(id).Level => Count("deliver", id) = 0
       /\ (calls[id].lvl >= CfgOf(id).Level /\ PastSink(id)) =>
            Count("deliver", id) = 1
       /\ Count("deliver", id) <= 1

\* one call below the threshold came back undelivered, one call at the
\* threshold itself was delivered
C1_Witness ==
  \E i, j \in returned :
    /\ calls[i].lvl < CfgOf(i).Level
    /\ Count("deliver", i) = 0
    /\ calls[j].lvl = CfgOf(j).Level
    /\ Count("deliver", j) = 1

\* C2: for a Fatalf at or above the threshold the sink receives the message
\* exactly once, then the exit hook is invoked exactly once with the
\* Config's ExitCode, after the sink's Logf for that message has returned.
C2_FatalExit ==
  \A id \in Ids :
    (calls[id].lvl = Fatal /\ CfgOf(id).Level <= Fatal) =>
      /\ Count("exit", id) <= 1
      /\ id \in returned => (Count("exit", id) = 1 /\ Count("deliver", id) = 1)
      /\ \A k \in 1..Len(trace) :
           (trace[k].ev = "exit" /\ trace[k].id = id) =>
             /\ trace[k].n = CfgOf(id).ExitCode
             /\ trace[k].h = CfgOf(id).Exit
             /\ Count("deliver", id) = 1
             /\ \E j \in 1..(k - 1) :
                  trace[j].ev = "sinkret" /\ trace[j].id = id

\* a Fatalf returned after the sink got it and the no-op exit func was then
\* called with the exit code the ExitCode option had set
C2_Witness ==
  \E id \in returned :
    /\ calls[id].lvl = Fatal
    /\ CfgOf(id).ExitCode = 2
    /\ \E j, k \in 1..Len(trace) :
         /\ j < k
         /\ trace[j].ev = "sinkret" /\ trace[j].id = id
         /\ trace[k].ev = "exit" /\ trace[k].id = id /\ trace[k].n = 2

\* C3: whatever the threshold and the sink, every call to Fatalf invokes
\* the exit hook and every call to Panicf invokes the panic hook.
C3_HooksAlways ==
  \A id \in returned :
    /\ calls[id].lvl = Fatal => Count("exit", id) = 1
    /\ calls[id].lvl = Panic => Count("panic", id) = 1

\* C4: the panic hook of a Panicf(message, args...) is invoked with the
\* rendered message, not the raw template.
C4_PanicRendered ==
  \A k \in 1..Len(trace) :
    (trace[k].ev = "panic" /\ calls[trace[k].id].m # <<>>) =>
      trace[k].text = Render(calls[trace[k].id].m, calls[trace[k].id].a)

\* C8: when the Sink has both a Stream and a Logger, every event delivered
\* is written to the Stream and the Logger receives no event.
C8_StreamWins ==
  \A id \in Ids :
    (CfgOf(id).Sink.Stream # "nil" /\ CfgOf(id).Sink.Logger # "nil") =>
      /\ \A k \in 1..Len(sinkLog) : sinkLog[k].id # id
      /\ \A k \in 1..Len(trace) :
           (trace[k].ev = "deliver" /\ trace[k].id = id) =>
             /\ trace[k].h = CfgOf(id).Sink.Stream
             /\ \E c \in 1..Len(captures) :
                  captures[c].id = id /\ captures[c].stream = CfgOf(id).Sink.Stream

\* an Interface built with both the Stream and the Logger option delivered
\* an event, which the Stream captured
C8_Witness ==
  \E id \in returned :
    /\ CfgOf(id).Sink.Stream = "s1"
    /\ CfgOf(id).Sink.Logger = "l1"
    /\ \E c \in 1..Len(captures) : captures[c].id = id /\ captures[c].stream = "s1"
    /\ sinkLog = <<>>

\* the Interfaces other than i that write to the Stream of Interface i
Sharing(i) ==
  {j \in 1..Len(ifaces) :
     j # i /\ ifaces[j].cfg.Sink.Stream = ifaces[i].cfg.Sink.Stream}

\* the goroutines inside the sink Logf of Interface i
InSink(i) == {g \in G : gs[g].pc = "marshal" /\ calls[gs[g].id].iface = i}

\* the complete bytes of event id: its Writes, in order
Complete(id) ==
  LET ops == MarshalOps(ifaces[calls[id].iface].decorators,
                        WithValue(<<>>, "level", calls[id].lvl),
                        calls[id].m, calls[id].a)
  IN [k \in 1..(Len(ops) - 1) |-> [id |-> id, data |-> ops[k].data]]

CapturesOf(id) == {c \in 1..Len(captures) : captures[c].id = id}

\* C9: goroutines logging concurrently through one Interface to a
\* BufferedStream produce one EOM capture per call, each the complete bytes
\* of exactly one event; at most one goroutine is inside the guarded sink
\* Logf at any time.
C9_OneInterface ==
  /\ \A i \in 1..Len(ifaces) : Cardinality(InSink(i)) <= 1
  /\ \A id \in Ids :
       Sharing(calls[id].iface) = {} =>
         /\ Cardinality(CapturesOf(id)) <= 1
         /\ PastSink(id) => Cardinality(CapturesOf(id)) = 1
         /\ \A c \in CapturesOf(id) : captures[c].chunks = Complete(id)

\* two goroutines logged through the same Interface at once, at different
\* levels: the call made second was captured first, and both captures are
\* there
C9_Witness ==
  /\ returned = {1, 2}
  /\ calls[1].iface = calls[2].iface
  /\ calls[1].g # calls[2].g
  /\ calls[1].lvl # calls[2].lvl
  /\ Sharing(calls[1].iface) = {}
  /\ Len(captures) = 2
  /\ captures[1].id = 2
  /\ captures[2].id = 1

\* C10: for any Interfaces built by Config.With over the same Stream, the
\* writes of one event up to its EOM are never interleaved with the writes
\* of another event.
C10_NoInterleaving ==
  /\ \A s \in StreamIds : \A j, k \in 1..Len(bufs[s]) : bufs[s][j].id = bufs[s][k].id
  /\ \A c \in 1..Len(captures) :
       \A k \in 1..Len(captures[c].chunks) : captures[c].chunks[k].id = captures[c].id

\* the one-character codes of the levels, Debug to Panic
CodeOf(lvl) ==
  CASE lvl = 1 -> "D" [] lvl = 2 -> "I" [] lvl = 4 -> "W"
    [] lvl = 8 -> "E" [] lvl = 16 -> "F" [] lvl = 32 -> "P"

\* C11: with a Stream sink and the level-prefix encoding, every event
\* delivered through the method of level L, formatted or formatless, is
\* captured as the one-character code of L followed by the formatted
\* message.
C11_LevelCode ==
  \A c \in 1..Len(captures) :
    LET id == captures[c].id
    IN ifaces[calls[id].iface].decorators = <<"LevelPrefix">> =>
         /\ Len(captures[c].chunks) = 2
         /\ captures[c].chunks[1].data = <<CodeOf(calls[id].lvl)>>
         /\ captures[c].chunks[2].data = Render(calls[id].m, calls[id].a)

\* a formatless Fatal and a formatted Warnf were both captured with their
\* level codes
C11_Witness ==
  /\ Len(captures) = 2
  /\ calls[captures[1].id].lvl = Fatal
  /\ calls[captures[1].id].m = <<>>
  /\ captures[1].chunks[1].data = <<"F">>
  /\ calls[captures[2].id].lvl = Warn
  /\ calls[captures[2].id].m # <<>>
  /\ captures[2].chunks[1].data = <<"W">>
  /\ captures[2].chunks[2].data = <<"x=", "7">>

(***************************************************************************)
(* Properties of the streams and marshalers used directly.                 *)
(***************************************************************************)
EOMsOf(ev) == {j \in 1..Len(eoms) : eoms[j].ev = ev}

\* C12: for every call of a marshaler built by Format(decorators...), also
\* when a Prefix decorator fails, EOM is called on the Stream exactly once,
\* with the accumulated write error, and the marshaler returns what EOM
\* returned.
C12_EOMOncePerEvent ==
  \A k \in 1..Len(rets) :
    /\ Cardinality(EOMsOf(rets[k].ev)) = 1
    /\ \A j \in EOMsOf(rets[k].ev) :
         /\ eoms[j].in = "nil"
         /\ rets[k].err = eoms[j].out

\* C13: after any BufferedStream.EOM the buffer is empty, whatever the
\* incoming error and whatever EOMFunc returns; EOMFunc, when set, is given
\* all the bytes written since the previous EOM and the incoming error.
C13_BufferReset ==
  stream.kind = "buffered" =>
    /\ \A j \in 1..Len(eoms) :
         /\ eoms[j].left = <<>>
         /\ eoms[j].called = (stream.eomf # "nil")
         /\ eoms[j].called =>
              (eoms[j].given = eoms[j].since /\ eoms[j].passed = eoms[j].in)
    /\ (mar.pc = "ret" /\ EOMsOf(mar.ev) # {}) => sbuf = <<>>

\* EOM was given an error with bytes in the buffer, EOMFunc got both and
\* returned an error of its own, and the buffer is empty
C13_Witness ==
  /\ stream.kind = "buffered"
  /\ eoms # <<>>
  /\ eoms[Len(eoms)].in = "e1"
  /\ eoms[Len(eoms)].called
  /\ eoms[Len(eoms)].given # <<>>
  /\ eoms[Len(eoms)].passed = "e1"
  /\ eoms[Len(eoms)].out = "ef"
  /\ sbuf = <<>>

\* C14: the bytes handed to EOMFunc for an event contain only bytes written
\* for that event, also after an earlier event failed part-way.
C14_NoLeak ==
  (stream.kind = "buffered" /\ stream.eomf # "nil") =>
    \A j \in 1..Len(eoms) :
      eoms[j].ev # 0 =>
        \A i \in 1..Len(eoms[j].given) : eoms[j].given[i].ev = eoms[j].ev

\* C15: BufferedStream.EOM on a stream with no EOMFunc returns exactly the
\* error it was given.
C15_NoFuncReturnsGiven ==
  (stream.kind = "buffered" /\ stream.eomf = "nil") =>
    \A j \in 1..Len(eoms) : eoms[j].out = eoms[j].in

\* binary.ReadUvarint on the bytes q from position i: the value and the
\* position after it
RECURSIVE ReadUvarint(_, _, _)
ReadUvarint(q, i, shift) ==
  IF i > Len(q) \/ q[i].part # "len" THEN [val |-> 0 - 1, next |-> i]
  ELSE IF q[i].v < 128 THEN [val |-> q[i].v * shift, next |-> i + 1]
  ELSE LET r == ReadUvarint(q, i + 1, shift * 128)
       IN IF r.val < 0 THEN r
          ELSE [val |-> (q[i].v - 128) * shift + r.val, next |-> r.next]

\* the records read back: a length, then that many bytes, until the end;
\* a "bad" record where no length can be read or the bytes run out
RECURSIVE Decode(_)
Decode(q) ==
  IF q = <<>> THEN <<>>
  ELSE LET u == ReadUvarint(q, 1, 1)
           rest == SubSeq(q, u.next, Len(q))
           data == TakeBytes(rest, u.val)
       IN IF u.val < 0 \/ Bytes(rest) < u.val THEN <<<<Seg(0, "bad", 0, 0)>>>>
          ELSE <<data>> \o Decode(SubSeq(rest, Len(data) + 1, Len(rest)))

\* the events framed so far: what was written before each EOM(nil)
RECURSIVE Framed(_)
Framed(h) ==
  IF h = <<>> THEN <<>>
  ELSE (IF Head(h).in = "nil" THEN <<Head(h).since>> ELSE <<>>) \o Framed(Tail(h))

ShortWrite(j) ==
  /\ eoms[j].in = "nil"
  /\ \/ eoms[j].w1 = "short"
     \/ eoms[j].w1 = "full" /\ eoms[j].w2 = "short" /\ Bytes(eoms[j].since) > 0

\* C17: if the delegate of a RecordIO stream accepts fewer bytes than asked
\* without an error, in the length write or the payload write, EOM returns
\* io.ErrShortWrite, the marshaler returns it, and the buffer is empty
\* afterwards.
C17_ShortWrite ==
  stream.kind = "record" =>
    \A j \in 1..Len(eoms) :
      ShortWrite(j) =>
        /\ eoms[j].out = "ErrShortWrite"
        /\ eoms[j].left = <<>>
        /\ \A k \in 1..Len(rets) :
             rets[k].ev = eoms[j].ev => rets[k].err = "ErrShortWrite"

\* a payload write fell short, the marshaler returned the error, and the
\* next event started from an empty buffer
C17_Witness ==
  /\ stream.kind = "record"
  /\ stream.dd = <<>>
  /\ Len(rets) = 2
  /\ Len(eoms) = 2
  /\ eoms[1].w1 = "full"
  /\ eoms[1].w2 = "short"
  /\ Bytes(eoms[1].since) = 200
  /\ rets[1].err = "ErrShortWrite"
  /\ eoms[2].since = <<Seg(2, "body", 3, 0)>>

(***************************************************************************)
(* The error channel of the Stream sink.                                   *)
(***************************************************************************)
SendsOf(id) == {j \in 1..Len(sends) : sends[j].id = id}

ResultsOf(id) == {k \in 1..Len(results) : results[k].id = id}

ErrChOf(id) == ifaces[calls[id].iface].errors

\* C18: an error the marshaler returned when the event's Context was
\* already done is never sent on the error channel.
C18_DoneDrops ==
  \A id \in Ids :
    (\E k \in ResultsOf(id) : results[k].done) => SendsOf(id) = {}

\* the Context of call id is not done, and has not been
NotDone(id) == ~cancelled \/ CfgOf(id).Context # G1

\* C19: on the error channel of an Interface go the errors its marshaler
\* returned and nothing else, each at most once; a call that has returned
\* with the error e of its marshaler, its Context not done, has sent e
\* exactly once; a call whose marshaler returned no error has sent nothing;
\* with a nil channel nothing is sent and no call waits in the select.
C19_ErrorsReported ==
  \A id \in Ids :
    /\ \A j \in SendsOf(id) : \E k \in ResultsOf(id) : results[k].err = sends[j].err
    /\ Cardinality(SendsOf(id)) <= 1
    /\ Cardinality(ResultsOf(id)) <= 1
    /\ (id \in returned /\ ResultsOf(id) # {} /\ ErrChOf(id) # "nil" /\ NotDone(id))
         => Cardinality(SendsOf(id)) = 1
    /\ ErrChOf(id) = "nil"
         => /\ SendsOf(id) = {}
            /\ \A g \in G : gs[g].id = id => gs[g].pc # "select"

\* two calls have returned, one after its error was sent on the channel,
\* its Context not done, one whose marshaler returned no error
C19_Witness ==
  /\ \E id \in returned :
       /\ ResultsOf(id) # {}
       /\ ErrChOf(id) = "e1"
       /\ NotDone(id)
       /\ \E j \in SendsOf(id) : sends[j].err = "e2"
  /\ \E id \in returned : ResultsOf(id) = {} /\ CapturesOf(id) # {}

\* the call of g waits in its select for ever: the channel cannot accept,
\* nobody comes to receive, and Done() of its Context is nil
Stuck(g) ==
  /\ gs[g].pc = "select"
  /\ ~CanAccept(ifaces[IfaceOf(g)].errors)
  /\ ~listening
  /\ ~HasValue(gs[g].ctx, "g1")

\* C20: no log call waits for the lockGuard of an Interface behind a call
\* that waits for ever to send its error: the failing call returns and
\* the later events through the Interface are delivered.
C20_LoggingContinues ==
  \A g \in G, h \in G :
    ~ /\ Stuck(h)
      /\ gs[g].pc = "enter"
      /\ TopLayer(g).k = "guard"
      /\ mutex[IfaceOf(g)] = h

(***************************************************************************)
(* Contexts.                                                               *)
(***************************************************************************)
\* C22: the Context a WithValue call returned has the value given for the
\* key given and, for every other key, the value of the Context it was
\* made from; that Context still returns for every key what it returned
\* before the call; Background returns nil for every key.  So a chain of
\* two calls with different keys has both values, and of two calls with the
\* same key the value of the later one.
C22_WithValue ==
  /\ \A k \in CtxKeys : ContextValue(heap, 0, k) = NilValue
  /\ \A j \in 1..Len(snap) :
       /\ ContextValue(heap, snap[j].ctx, snap[j].key) = snap[j].value
       /\ \A k \in CtxKeys \ {snap[j].key} :
            ContextValue(heap, snap[j].ctx, k) = ContextValue(heap, snap[j].c, k)
       /\ \A k \in CtxKeys : ContextValue(heap, snap[j].c, k) = snap[j].before[k]

\* WithValue(WithValue(WithValue(c, k1, v1), k2, v2), k1, v2): two keys
\* set, then the first set again
C22_Witness ==
  /\ Len(snap) = 3
  /\ snap[1].c = 0 /\ snap[1].key = "k1" /\ snap[1].value = "v1"
  /\ snap[2].c = snap[1].ctx /\ snap[2].key = "k2" /\ snap[2].value = "v2"
  /\ snap[3].c = snap[2].ctx /\ snap[3].key = "k1" /\ snap[3].value = "v2"
  /\ ContextValue(heap, snap[2].ctx, "k1") = "v1"
  /\ ContextValue(heap, snap[3].ctx, "k1") = "v2"
  /\ ContextValue(heap, snap[3].ctx, "k3") = NilValue

(***************************************************************************)
(* Loggers and marshalers called directly.                                 *)
(***************************************************************************)
\* C21: Logf of a Multi calls the Logf of every member exactly once, in
\* the order of the members, with its own Context, message and arguments,
\* whether or not a member fails.
C21_MultiDispatch ==
  inp.kind = "multi" =>
    outp.log = [i \in 1..Len(inp.loggers) |->
                  [logger |-> i, c |-> inp.c, m |-> inp.m, a |-> inp.a]]

\* the decorators of the call that write a prefix
Prefixes == {i \in 1..Len(inp.dd) : ~Skipped(inp.dd[i]) /\ inp.dd[i].kind # "WithContext"}

\* what decorator by has written, in order
WrittenBy(by) ==
  LET Mine(b) == b.by = by
      q == SelectSeq(outp.bytes, Mine)
  IN [p \in 1..Len(q) |-> q[p].data]

\* the chunks of q that are not empty
NonEmpty(q) ==
  LET Some(b) == b # ""
  IN SelectSeq(q, Some)

\* the Context position j of the list is to see: that of the call with the
\* pairs of the WithContext decorators after j, the last of the list first
RECURSIVE CtxSeen(_, _, _)
CtxSeen(dd, j, c) ==
  IF Len(dd) <= j THEN c
  ELSE CtxSeen(Front(dd), j,
               IF dd[Len(dd)].kind = "WithContext" /\ dd[Len(dd)].f # "nil"
               THEN WithValue(c, dd[Len(dd)].key, dd[Len(dd)].val) ELSE c)

\* C23: the decorators of a list that are not nil are entered from the last
\* to the first, and the marshaler decorated after them; the bytes of an
\* event are the prefixes in that order and then the output of the
\* marshaler; each is entered with the Context of the call changed by the
\* WithContext decorators that come after it in the list, and by no other.
C23_DecorateOrder ==
  inp.kind = "marshal" =>
    /\ \A p \in 1..Len(outp.seen), q \in 1..Len(outp.seen) :
         p < q => outp.seen[p].by > outp.seen[q].by
    /\ \A p \in 1..Len(outp.bytes), q \in 1..Len(outp.bytes) :
         p < q => outp.bytes[p].by >= outp.bytes[q].by
    /\ \A p \in 1..Len(outp.seen) :
         /\ outp.seen[p].by \in 0..Len(inp.dd)
         /\ outp.seen[p].by # 0 => ~Skipped(inp.dd[outp.seen[p].by])
         /\ outp.seen[p].c = CtxSeen(inp.dd, outp.seen[p].by, inp.c)
    /\ outp.err = "nil" =>
         /\ {outp.seen[p].by : p \in 1..Len(outp.seen)}
              = {0} \cup {i \in 1..Len(inp.dd) : ~Skipped(inp.dd[i])}
         /\ \A i \in Prefixes :
              WrittenBy(i) = NonEmpty(PrefixChunks(inp.dd[i], CtxSeen(inp.dd, i, inp.c)))
         /\ WrittenBy(0) = <<Render(inp.m, inp.a)>>

\* Decorators{Level(), WithContext(level Warn)} called with level Info: the
\* WithContext is entered first with Info, Level writes W, the marshaler
\* decorated sees Warn
C23_Witness ==
  /\ inp.kind = "marshal"
  /\ inp.dd = <<Dec("Level", "f", <<>>, "nil", "", 0),
                Dec("WithContext", "f", <<>>, "nil", "level", Warn)>>
  /\ inp.c = WithValue(<<>>, "level", Info)
  /\ inp.failAt = 0
  /\ Len(outp.seen) = 3
  /\ outp.seen[1] = [by |-> 2, c |-> inp.c]
  /\ FromContext(outp.seen[3].c) = Warn
  /\ outp.bytes[1] = [by |-> 1, data |-> "W"]
  /\ outp.bytes[2].by = 0

\* the list without its i-th decorator
Without(dd, i) == SubSeq(dd, 1, i - 1) \o SubSeq(dd, i + 1, Len(dd))

\* what a run wrote and returned, whoever wrote it
Effect(st) ==
  [data |-> [p \in 1..Len(st.bytes) |-> st.bytes[p].data], err |-> st.err,
   eoms |-> st.eoms]

\* the decorator entered last
LastSeen == outp.seen[Len(outp.seen)].by

C25_UnknownLevelFails ==
  inp.kind = "marshal" =>
    \A p \in 1..Len(outp.seen) :
      (/\ outp.seen[p].by # 0
       /\ inp.dd[outp.seen[p].by].kind \in {"Level", "Annotator"}
       /\ HasValue(outp.seen[p].c, "level")
       /\ FromContext(outp.seen[p].c) \notin DOMAIN levelCodes)
        => /\ outp.err # "nil"
           /\ WrittenBy(0) = <<>>
           /\ WrittenBy(outp.seen[p].by) = <<>>

(***************************************************************************)
(* The Context of an event.                                                *)
(***************************************************************************)
\* the decorators AddContext was given when the Interface of call id was
\* built
Added(id) == CfgOf(id).Context.decs

\* C26: a log call through an Interface built with AddContext(d...) does
\* not panic, and the Context its sink is given is that of the getter of
\* the Config, Background when there is none, with the values of d added
\* first to last before any other.
C26_AddContext ==
  /\ \A g \in G : gs[g].pc # "panicked"
  /\ \A k \in 1..Len(sinkLog) :
       LET id == sinkLog[k].id
           base == IF CfgOf(id).Context.base = "g1"
                   THEN <<[key |-> "g1", val |-> 1]>> ELSE <<>>
       IN /\ Len(sinkLog[k].c) >= Len(base) + Len(Added(id))
          /\ SubSeq(sinkLog[k].c, 1, Len(base)) = base
          /\ \A j \in 1..Len(Added(id)) :
               sinkLog[k].c[Len(base) + j].key = Added(id)[j]

(***************************************************************************)
(* The layers of a level's Logger.  A Logger is the sequence of its        *)
(* layers, the sink first and the outermost layer last.                    *)
(***************************************************************************)
\* C27: in the Logger Config.With builds for Fatal and for Panic the exit
\* or panic wrapper is the outermost layer, unless the level is discarded.
C27_HookOutermost ==
  \A i \in 1..Len(ifaces), x \in {Fatal, Panic} :
    LET logs == ifaces[i].loggers[x]
    IN logs # Null => logs[Len(logs)].k \in {"exit", "panic"}

\* C28: the lockGuard of an Interface is not held by a call whose exit or
\* panic hook is about to run.
C28_HooksOutsideGuard ==
  \A g \in G :
    (Unwinding(g, "exit") \/ Unwinding(g, "panic")) => mutex[IfaceOf(g)] # g

(***************************************************************************)
(* The threshold and the guard under concurrency.                          *)
(***************************************************************************)
\* call id is below the threshold its Interface was built with
Discarded(id) == calls[id].lvl < CfgOf(id).Level

C30_GuardReleased ==
  \A i \in 1..Len(mutex) :
    mutex[i] # 0 =>
      LET g == mutex[i]
      IN /\ gs[g].pc \in {"enter", "unwind"}
         /\ IfaceOf(g) = i
         /\ \E k \in 1..Len(gs[g].defers) : gs[g].defers[k].k = "guard"

\* a Panicf whose sink panicked and whose panic hook panicked too has left
\* the Interface, and a later call has locked the guard, logged and returned
C30_Witness ==
  \E i, j \in returned :
    /\ i < j
    /\ Count("sinkpanic", i) = 1
    /\ \E k \in 1..Len(trace) :
         trace[k].ev = "panic" /\ trace[k].id = i /\ trace[k].h = "nil"
    /\ Count("deliver", j) = 1
    /\ \A g \in G : gs[g].pc = "idle"
    /\ mutex[calls[j].iface] = 0

====
